---- MODULE Spec2Model ----
(***************************************************************************)
(* Storage adapters of secure-keyv (MySQL, PostgreSQL, MongoDB standard    *)
(* and MongoDB GridFS) modelled as state machines over one backing         *)
(* table / collection / bucket.                                            *)
(*                                                                         *)
(* A row of the backing store is a record                                  *)
(*    [id, key, ns, value, expires]                                        *)
(* key/ns/value/expires are the columns (id, namespace, value, expires in  *)
(* MySQL; key, namespace, value in PostgreSQL; key, namespace, value,      *)
(* expiresAt in MongoDB; filename, metadata.namespace, file content,       *)
(* metadata.expiresAt in GridFS).  id is the GridFS file _id (0 for table  *)
(* rows and documents, which the adapters never address by _id).           *)
(* metadata.lastAccessed of a GridFS file is not part of the modelled      *)
(* state: clearUnusedFor, its only reader, is not modelled.                *)
(***************************************************************************)
EXTENDS Integers, Sequences, FiniteSets, TLC

VARIABLES
    mode,      \* which adapter backs the store: "mysql", "postgres", "mongo", "gridfs"
    ns,        \* ns[i]: the _namespace field of adapter instance i
    store,     \* the rows / documents / files of the backing store
    nextId,    \* next GridFS file _id
    last,      \* the call that completed last, with its arguments and result
    shadow,    \* per namespace, the map key -> payload the calls so far describe
    pend,      \* pend[i]: the delete call of instance i suspended at its await
    it,        \* the running iteration (generator frame of iterator())
    it2,       \* the frame of a second iterator() call on the same adapter
    sched,     \* the events of the MySQL event scheduler and who installs them
    clock,     \* the reading of Date.now()
    pm,        \* the pool manager: its cache, the pools created, calls in flight
    boot,      \* the table's shape and each instance's bootstrap and connection
    mig        \* the run of the migration script: its position and outcome

vars == <<mode, ns, store, nextId, last, shadow, pend, it, it2, sched, clock, pm, boot, mig>>

\* the variables only the lifecycle specifications change
env == <<clock, pm, boot, mig>>

---------------------------------------------------------------------------
(* Values of the host language and of SQL *)

UNDEFINED == "<undefined>"   \* JavaScript undefined
NULL == "<null>"             \* JavaScript null / SQL NULL

(* Bounds of the model *)
MaxLen == 2      \* longest key list / entry list passed to a batch call
MaxFiles == 2    \* GridFS uploads per behaviour
MaxNow == 2      \* largest clock reading (Date.now())

Modes == {"mysql", "postgres", "mongo", "gridfs"}
Inst == {"i1", "i2"}
NsConfigs == {UNDEFINED, "", "a"}
\* the namespaces of the two adapter instances of a behaviour
NsPairs == {[i1 |-> UNDEFINED, i2 |-> "a"], [i1 |-> "", i2 |-> "a"],
            [i1 |-> UNDEFINED, i2 |-> ""]}
RawKeys == {"k", "a:k"}
JsonWithExpires == "{\"value\":\"x\",\"expires\":1}"
Values == {"v1", JsonWithExpires}
\* further payloads, one per branch of getExpiresFromValue
JsonLaterExpires == "{\"value\":\"x\",\"expires\":2}"
JsonNoExpires == "{\"value\":\"x\"}"
JsonStringExpires == "{\"value\":\"x\",\"expires\":\"1\"}"
JsonNumber == "7"
JsonNull == "null"
Payloads == Values \cup {JsonLaterExpires, JsonNoExpires, JsonStringExpires,
                         JsonNumber, JsonNull}
NoExpires == {}           \* a null expires column / expiresAt field / absent ttl
Clock == 0..MaxNow

---------------------------------------------------------------------------
(* Strings *)

StartsWith(s, p) == Len(s) >= Len(p) /\ SubSeq(s, 1, Len(p)) = p

CharCode(c) ==
    CASE c = ":" -> 58
      [] c = "a" -> 97
      [] c = "k" -> 107
      [] c = "l" -> 108
      [] c = "m" -> 109
      [] c = "s" -> 115
      [] c = "x" -> 120
      [] OTHER -> 122

RECURSIVE StrLess(_, _)
\* s < t in the code-unit order the ORDER BY / "key > cursor" comparisons use
StrLess(s, t) ==
    IF Len(t) = 0 THEN FALSE
    ELSE IF Len(s) = 0 THEN TRUE
    ELSE LET cs == CharCode(SubSeq(s, 1, 1))
             ct == CharCode(SubSeq(t, 1, 1))
         IN IF cs # ct THEN cs < ct
            ELSE StrLess(SubSeq(s, 2, Len(s)), SubSeq(t, 2, Len(t)))

Range(f) == {f[x] : x \in DOMAIN f}

SeqsUpTo(S, n) == UNION {[1..m -> S] : m \in 0..n}

---------------------------------------------------------------------------
(* Result rows of a query, in the order the backend returns them.  The     *)
(* adapters never rely on that order outside the iterator (which sorts);   *)
(* the model returns rows in index order (key, then _id).                  *)

RowBefore(r, q) ==
    \/ StrLess(r.key, q.key)
    \/ r.key = q.key /\ r.id < q.id
    \/ r.key = q.key /\ r.id = q.id /\ StrLess(r.ns, q.ns)

RECURSIVE RowsSeq(_)
RowsSeq(S) ==
    IF S = {} THEN <<>>
    ELSE LET first == CHOOSE r \in S : \A q \in S : ~RowBefore(q, r)
         IN <<first>> \o RowsSeq(S \ {first})

\* The outcome of one call: the store it leaves, whether the promise
\* resolved (ok) or rejected, and the value it resolved with.
Outcome(st, res) == [store |-> st, ok |-> TRUE, res |-> res]
Rejected(st) == [store |-> st, ok |-> FALSE, res |-> UNDEFINED]

---------------------------------------------------------------------------
(* Helpers shared by the three adapter classes *)

\* JavaScript truthiness of the _namespace field (undefined and "" are falsy)
Truthy(n) == n # UNDEFINED /\ n # ""

\* variant of removeKeyPrefix that strips the prefix without comparing it
\* with the namespace of the adapter
removeKeyPrefix_AnyPrefix(n, key) ==
    IF Truthy(n) /\ Len(key) > Len(n) /\ SubSeq(key, Len(n) + 1, Len(n) + 1) = ":"
    THEN SubSeq(key, Len(n) + 2, Len(key))
    ELSE key

removeKeyPrefix(n, key) ==
    IF Truthy(n) /\ StartsWith(key, n \o ":")
    THEN SubSeq(key, Len(n) + 2, Len(key))
    ELSE key

\* KeyvMysql.getNamespaceValue and KeyvMongo.getNamespaceValue
getNamespaceValue(n) == IF n = UNDEFINED THEN "" ELSE n

\* KeyvPostgres.getNamespaceValue
PgGetNamespaceValue(n) == IF n = UNDEFINED THEN NULL ELSE n

\* SQL COALESCE(x, '')
Coalesce(x) == IF x = NULL THEN "" ELSE x

\* JSON.parse on the payloads of the model: whether it returns (ok) or
\* throws, and of the parsed data its truthiness, its typeof, and the typeof
\* and number of its expires property
JSONParse(value) ==
    CASE value = JsonWithExpires ->
            [ok |-> TRUE, truthy |-> TRUE, type |-> "object",
             expiresType |-> "number", expires |-> {1}]
      [] value = JsonLaterExpires ->
            [ok |-> TRUE, truthy |-> TRUE, type |-> "object",
             expiresType |-> "number", expires |-> {2}]
      [] value = JsonNoExpires ->
            [ok |-> TRUE, truthy |-> TRUE, type |-> "object",
             expiresType |-> "undefined", expires |-> NoExpires]
      [] value = JsonStringExpires ->
            [ok |-> TRUE, truthy |-> TRUE, type |-> "object",
             expiresType |-> "string", expires |-> NoExpires]
      [] value = JsonNumber ->
            [ok |-> TRUE, truthy |-> TRUE, type |-> "number",
             expiresType |-> "undefined", expires |-> NoExpires]
      [] value = JsonNull ->
            [ok |-> TRUE, truthy |-> FALSE, type |-> "object",
             expiresType |-> "undefined", expires |-> NoExpires]
      [] OTHER ->
            [ok |-> FALSE, truthy |-> FALSE, type |-> "undefined",
             expiresType |-> "undefined", expires |-> NoExpires]

getExpiresFromValue(value) ==
    LET data == JSONParse(value)
    IN IF ~data.ok THEN NoExpires
       ELSE IF data.truthy /\ data.type = "object" /\ data.expiresType = "number"
            THEN data.expires
       ELSE NoExpires

Row(id, key, nsv, value, expires) ==
    [id |-> id, key |-> key, ns |-> nsv, value |-> value, expires |-> expires]

\* rows[0]?.value over a result set: the value of the first row, or undefined
FirstValue(rows) == IF rows = <<>> THEN UNDEFINED ELSE rows[1].value

\* rows.findIndex(row => row.id === key), then rows[index].value or undefined
FindIndexValue(rows, key) ==
    LET hits == {n \in 1..Len(rows) : rows[n].key = key}
    IN IF hits = {} THEN UNDEFINED
       ELSE rows[CHOOSE n \in hits : \A m \in hits : n <= m].value

MapSeq(Op(_), s) == [n \in 1..Len(s) |-> Op(s[n])]

\* Sequences over the domain of outs whose n-th element is one of outs[n]
PickEach(outs) ==
    {s \in [DOMAIN outs -> UNION Range(outs)] : \A n \in DOMAIN outs : s[n] \in outs[n]}

---------------------------------------------------------------------------
(* KeyvMysql: src/storage/mysql/src/index.ts *)

\* WHERE id IN (keys) AND namespace = nsv
MysqlWhere(st, keys, nsv) == {r \in st : r.key \in keys /\ r.ns = nsv}

\* mysql.format renders an empty array bound to "IN (?)" as "IN ()", a
\* statement MySQL refuses: the query promise rejects.
MysqlInListRejected(keys) == keys = <<>>

\* variant of OnDuplicateKeyUpdate that updates the value column only
OnDuplicateKeyUpdate_ValueOnly(st, new) ==
    IF \E r \in st : r.key = new.key /\ r.ns = new.ns
    THEN {IF r.key = new.key /\ r.ns = new.ns
          THEN [r EXCEPT !.value = new.value]
          ELSE r : r \in st}
    ELSE st \cup {new}

\* INSERT ... ON DUPLICATE KEY UPDATE value=?, expires=? for one row, under
\* the unique index (id, namespace)
OnDuplicateKeyUpdate(st, new) ==
    IF \E r \in st : r.key = new.key /\ r.ns = new.ns
    THEN {IF r.key = new.key /\ r.ns = new.ns
          THEN [r EXCEPT !.value = new.value, !.expires = new.expires]
          ELSE r : r \in st}
    ELSE st \cup {new}

RECURSIVE MysqlInsertRows(_, _)
\* the rows of one multi-row INSERT, applied in list order
MysqlInsertRows(st, rows) ==
    IF rows = <<>> THEN st
    ELSE MysqlInsertRows(OnDuplicateKeyUpdate(st, Head(rows)), Tail(rows))

KeyvMysql_get(st, n, key) ==
    LET strippedKey == removeKeyPrefix(n, key)
        rows == RowsSeq(MysqlWhere(st, {strippedKey}, getNamespaceValue(n)))
    IN {Outcome(st, FirstValue(rows))}

KeyvMysql_getMany(st, n, keys) ==
    LET strippedKeys == MapSeq(LAMBDA k : removeKeyPrefix(n, k), keys)
        rows == RowsSeq(MysqlWhere(st, Range(strippedKeys), getNamespaceValue(n)))
    IN IF MysqlInListRejected(strippedKeys) THEN {Rejected(st)}
       ELSE {Outcome(st, MapSeq(LAMBDA k : FindIndexValue(rows, k), strippedKeys))}

KeyvMysql_set(st, n, key, value) ==
    LET strippedKey == removeKeyPrefix(n, key)
        nsv == getNamespaceValue(n)
        expires == getExpiresFromValue(value)
    IN {Outcome(OnDuplicateKeyUpdate(st, Row(0, strippedKey, nsv, value, expires)),
                UNDEFINED)}

KeyvMysql_setMany(st, n, entries) ==
    LET nsv == getNamespaceValue(n)
        values == MapSeq(LAMBDA e : Row(0, removeKeyPrefix(n, e.key), nsv, e.value,
                                        getExpiresFromValue(e.value)), entries)
    IN IF Len(entries) = 0 THEN {Outcome(st, UNDEFINED)}
       ELSE {Outcome(MysqlInsertRows(st, values), UNDEFINED)}

\* the SELECT of delete(): is rows[0] defined
MysqlDeleteSelect(st, n, key) ==
    MysqlWhere(st, {removeKeyPrefix(n, key)}, getNamespaceValue(n)) # {}

\* the DELETE of delete()
MysqlDeleteExec(st, n, key) ==
    st \ MysqlWhere(st, {removeKeyPrefix(n, key)}, getNamespaceValue(n))

\* delete() with nothing running between its two queries
KeyvMysql_delete(st, n, key) ==
    IF ~MysqlDeleteSelect(st, n, key) THEN {Outcome(st, FALSE)}
    ELSE {Outcome(MysqlDeleteExec(st, n, key), TRUE)}

KeyvMysql_deleteMany(st, n, keys) ==
    LET strippedKeys == MapSeq(LAMBDA k : removeKeyPrefix(n, k), keys)
        hit == MysqlWhere(st, Range(strippedKeys), getNamespaceValue(n))
        affectedRows == Cardinality(hit)
    IN IF MysqlInListRejected(strippedKeys) THEN {Rejected(st)}
       ELSE {Outcome(st \ hit, affectedRows # 0)}

\* clear() without its namespace filter
KeyvMysql_clear_AllNamespaces(st, n) == {Outcome({}, UNDEFINED)}

KeyvMysql_clear(st, n) ==
    {Outcome({r \in st : r.ns # getNamespaceValue(n)}, UNDEFINED)}

KeyvMysql_has(st, n, key) ==
    {Outcome(st, MysqlWhere(st, {removeKeyPrefix(n, key)}, getNamespaceValue(n)) # {})}

\* hasMany() answering per returned row instead of per requested key
KeyvMysql_hasMany_PerRow(st, n, keys) ==
    LET strippedKeys == MapSeq(LAMBDA k : removeKeyPrefix(n, k), keys)
        rows == RowsSeq(MysqlWhere(st, Range(strippedKeys), getNamespaceValue(n)))
    IN IF Len(keys) = 0 THEN {Outcome(st, <<>>)}
       ELSE {Outcome(st, MapSeq(LAMBDA r : TRUE, rows))}

KeyvMysql_hasMany(st, n, keys) ==
    LET strippedKeys == MapSeq(LAMBDA k : removeKeyPrefix(n, k), keys)
        rows == MysqlWhere(st, Range(strippedKeys), getNamespaceValue(n))
        existingKeys == {r.key : r \in rows}
    IN IF Len(keys) = 0 THEN {Outcome(st, <<>>)}
       ELSE {Outcome(st, MapSeq(LAMBDA k : k \in existingKeys, strippedKeys))}

\* DELETE ... WHERE expires IS NOT NULL AND expires < now, in every namespace
\* variant of KeyvMysql_clearExpired whose comparison is "expires <= now"
KeyvMysql_clearExpired_AtOrBefore(st, now) ==
    {Outcome({r \in st : ~(r.expires # NoExpires /\ \A e \in r.expires : e <= now)},
             UNDEFINED)}

KeyvMysql_clearExpired(st, now) ==
    {Outcome({r \in st : ~(r.expires # NoExpires /\ \A e \in r.expires : e < now)},
             UNDEFINED)}

---------------------------------------------------------------------------
(* KeyvPostgres: src/storage/postgres/src/types.ts.  The table has no      *)
(* expires column: the expires field of its rows is always NoExpires.      *)

\* WHERE key = ANY(keys) AND COALESCE(namespace, '') = COALESCE(nsv, '')
PgWhere(st, keys, nsv) ==
    {r \in st : r.key \in keys /\ Coalesce(r.ns) = Coalesce(nsv)}

\* INSERT ... ON CONFLICT(key, COALESCE(namespace, '')) DO UPDATE SET
\* value=excluded.value for one proposed row
OnConflictDoUpdate(st, new) ==
    IF \E r \in st : r.key = new.key /\ Coalesce(r.ns) = Coalesce(new.ns)
    THEN {IF r.key = new.key /\ Coalesce(r.ns) = Coalesce(new.ns)
          THEN [r EXCEPT !.value = new.value]
          ELSE r : r \in st}
    ELSE st \cup {new}

RECURSIVE PgInsertRows(_, _)
PgInsertRows(st, rows) ==
    IF rows = <<>> THEN st
    ELSE PgInsertRows(OnConflictDoUpdate(st, Head(rows)), Tail(rows))

\* One INSERT ... ON CONFLICT DO UPDATE may not propose two rows with the same
\* conflict key ("command cannot affect row a second time"): the statement
\* fails as a whole.
PgAffectsRowTwice(keys) ==
    \E a, b \in DOMAIN keys : a # b /\ keys[a] = keys[b]

\* new Map(rows.map(row => [row.key, row])).get(key)?.value
RowsMapValue(rows, key) ==
    LET hits == {m \in 1..Len(rows) : rows[m].key = key}
    IN IF hits = {} THEN UNDEFINED
       ELSE rows[CHOOSE m \in hits : \A l \in hits : l <= m].value

KeyvPostgres_get(st, n, key) ==
    LET strippedKey == removeKeyPrefix(n, key)
        rows == RowsSeq(PgWhere(st, {strippedKey}, PgGetNamespaceValue(n)))
    IN {Outcome(st, FirstValue(rows))}

KeyvPostgres_getMany(st, n, keys) ==
    LET strippedKeys == MapSeq(LAMBDA k : removeKeyPrefix(n, k), keys)
        rows == RowsSeq(PgWhere(st, Range(strippedKeys), PgGetNamespaceValue(n)))
    IN {Outcome(st, MapSeq(LAMBDA k : RowsMapValue(rows, k), strippedKeys))}

KeyvPostgres_set(st, n, key, value) ==
    LET strippedKey == removeKeyPrefix(n, key)
    IN {Outcome(OnConflictDoUpdate(st, Row(0, strippedKey, PgGetNamespaceValue(n),
                                           value, NoExpires)),
                UNDEFINED)}

KeyvPostgres_setMany(st, n, entries) ==
    LET keys == MapSeq(LAMBDA e : removeKeyPrefix(n, e.key), entries)
        rows == MapSeq(LAMBDA e : Row(0, removeKeyPrefix(n, e.key),
                                      PgGetNamespaceValue(n), e.value, NoExpires),
                       entries)
    IN IF PgAffectsRowTwice(keys) THEN {Rejected(st)}
       ELSE {Outcome(PgInsertRows(st, rows), UNDEFINED)}

\* DELETE ... RETURNING 1: rows.length > 0
KeyvPostgres_delete(st, n, key) ==
    LET hit == PgWhere(st, {removeKeyPrefix(n, key)}, PgGetNamespaceValue(n))
    IN {Outcome(st \ hit, Cardinality(hit) > 0)}

KeyvPostgres_deleteMany(st, n, keys) ==
    LET strippedKeys == MapSeq(LAMBDA k : removeKeyPrefix(n, k), keys)
        hit == PgWhere(st, Range(strippedKeys), PgGetNamespaceValue(n))
    IN {Outcome(st \ hit, Cardinality(hit) > 0)}

\* if (this._namespace) DELETE WHERE namespace = $1 else DELETE WHERE namespace IS NULL
KeyvPostgres_clear(st, n) ==
    IF Truthy(n) THEN {Outcome({r \in st : r.ns # n}, UNDEFINED)}
    ELSE {Outcome({r \in st : r.ns # NULL}, UNDEFINED)}

KeyvPostgres_has(st, n, key) ==
    {Outcome(st, PgWhere(st, {removeKeyPrefix(n, key)}, PgGetNamespaceValue(n)) # {})}

KeyvPostgres_hasMany(st, n, keys) ==
    LET strippedKeys == MapSeq(LAMBDA k : removeKeyPrefix(n, k), keys)
        rows == PgWhere(st, Range(strippedKeys), PgGetNamespaceValue(n))
        existingKeys == {r.key : r \in rows}
    IN {Outcome(st, MapSeq(LAMBDA k : k \in existingKeys, strippedKeys))}

---------------------------------------------------------------------------
(* KeyvMongo: src/unnamed/part_006 (third class of the file).  g is the    *)
(* _useGridFS flag.  A query without a sort returns documents in an order  *)
(* the server does not promise: findOne, updateOne, deleteOne and files[0] *)
(* pick any of the matching documents.                                     *)

\* { key: { $in: keys }, namespace: { $eq: nsv } }  (filename and
\* metadata.namespace for GridFS files)
MongoFind(st, keys, nsv) == {r \in st : r.key \in keys /\ r.ns = nsv}

\* typeof ttl === "number" ? new Date(Date.now() + ttl) : null
ExpiresAt(ttl, now) == {now + t : t \in ttl}

\* updateOne(filter, { $set: ... }, { upsert: true })
MongoUpsertOne(st, new) ==
    LET hits == MongoFind(st, {new.key}, new.ns)
    IN IF hits = {} THEN {st \cup {new}}
       ELSE {(st \ {h}) \cup {[h EXCEPT !.value = new.value, !.expires = new.expires]}
             : h \in hits}

RECURSIVE MongoBulkWrite(_, _)
\* bulkWrite(operations): the upserts one after another, in list order
MongoBulkWrite(sts, docs) ==
    IF docs = <<>> THEN sts
    ELSE MongoBulkWrite(UNION {MongoUpsertOne(st, Head(docs)) : st \in sts}, Tail(docs))

KeyvMongo_get(st, g, n, key) ==
    LET strippedKey == removeKeyPrefix(n, key)
        found == MongoFind(st, {strippedKey}, getNamespaceValue(n))
    IN IF found = {} THEN {Outcome(st, UNDEFINED)}
       ELSE {Outcome(st, d.value) : d \in found}

KeyvMongo_getMany(st, g, n, keys) ==
    LET strippedKeys == MapSeq(LAMBDA k : removeKeyPrefix(n, k), keys)
        values == RowsSeq(MongoFind(st, Range(strippedKeys), getNamespaceValue(n)))
    IN IF g
       THEN {Outcome(st, data) :
                data \in PickEach(MapSeq(LAMBDA k : {o.res : o \in KeyvMongo_get(st, g, n, k)},
                                         keys))}
       ELSE {Outcome(st, MapSeq(LAMBDA k : FindIndexValue(values, k), strippedKeys))}

\* fid is the _id of the file openUploadStream creates
KeyvMongo_set(st, g, n, key, value, ttl, now, fid) ==
    LET strippedKey == removeKeyPrefix(n, key)
        nsv == getNamespaceValue(n)
        expiresAt == ExpiresAt(ttl, now)
    IN IF g
       THEN {Outcome(st \cup {Row(fid, strippedKey, nsv, value, expiresAt)}, UNDEFINED)}
       ELSE {Outcome(s2, UNDEFINED) :
                s2 \in MongoUpsertOne(st, Row(0, strippedKey, nsv, value, expiresAt))}

\* entries[m] is uploaded as file fid + m - 1 in GridFS mode
KeyvMongo_setMany(st, g, n, entries, now, fid) ==
    LET nsv == getNamespaceValue(n)
        files == {Row(fid + m - 1, removeKeyPrefix(n, entries[m].key), nsv,
                      entries[m].value, ExpiresAt(entries[m].ttl, now))
                  : m \in 1..Len(entries)}
        operations == MapSeq(LAMBDA e : Row(0, removeKeyPrefix(n, e.key), nsv, e.value,
                                            ExpiresAt(e.ttl, now)), entries)
    IN IF g THEN {Outcome(st \cup files, UNDEFINED)}
       ELSE {Outcome(s2, UNDEFINED) : s2 \in MongoBulkWrite({st}, operations)}

\* the find of delete() in GridFS mode
MongoDeleteFind(st, n, key) ==
    MongoFind(st, {removeKeyPrefix(n, key)}, getNamespaceValue(n))

KeyvMongo_delete(st, g, n, key) ==
    LET files == MongoDeleteFind(st, n, key)
    IN IF files = {} THEN {Outcome(st, FALSE)}
       ELSE {Outcome(st \ {f}, TRUE) : f \in files}

KeyvMongo_deleteMany(st, g, n, keys) ==
    LET strippedKeys == MapSeq(LAMBDA k : removeKeyPrefix(n, k), keys)
        files == MongoFind(st, Range(strippedKeys), getNamespaceValue(n))
        deletedCount == Cardinality(files)
    IN IF g
       THEN IF files = {} THEN {Outcome(st, FALSE)} ELSE {Outcome(st \ files, TRUE)}
       ELSE {Outcome(st \ files, deletedCount > 0)}

KeyvMongo_clear(st, g, n) ==
    {Outcome({r \in st : r.ns # getNamespaceValue(n)}, UNDEFINED)}

\* variant of KeyvMongo_clearExpired whose filter is "expiresAt < now"
KeyvMongo_clearExpired_Before(st, g, n, now) ==
    LET expiredFiles == {r \in st : /\ r.expires # NoExpires
                                    /\ \A e \in r.expires : e < now
                                    /\ r.ns = getNamespaceValue(n)}
    IN IF ~g THEN {Outcome(st, FALSE)}
       ELSE {Outcome(st \ expiredFiles, TRUE)}

\* GridFS files with metadata.expiresAt <= now in the adapter's namespace
KeyvMongo_clearExpired(st, g, n, now) ==
    LET expiredFiles == {r \in st : /\ r.expires # NoExpires
                                    /\ \A e \in r.expires : e <= now
                                    /\ r.ns = getNamespaceValue(n)}
    IN IF ~g THEN {Outcome(st, FALSE)}
       ELSE {Outcome(st \ expiredFiles, TRUE)}

KeyvMongo_has(st, g, n, key) ==
    LET count == Cardinality(MongoFind(st, {removeKeyPrefix(n, key)}, getNamespaceValue(n)))
    IN {Outcome(st, count # 0)}

KeyvMongo_hasMany(st, g, n, keys) ==
    LET strippedKeys == MapSeq(LAMBDA k : removeKeyPrefix(n, k), keys)
        docs == MongoFind(st, Range(strippedKeys), getNamespaceValue(n))
        existingKeys == {d.key : d \in docs}
    IN {Outcome(st, MapSeq(LAMBDA k : k \in existingKeys, strippedKeys))}

---------------------------------------------------------------------------
(* The adapter instances over one backing store.  Every adapter call of    *)
(* Spec is awaited before the next one starts: a handler runs as one step. *)

IsGridFS == mode = "gridfs"

\* the namespace an instance writes into the namespace column
NsValue(i) == IF mode = "postgres" THEN PgGetNamespaceValue(ns[i])
              ELSE getNamespaceValue(ns[i])

\* the namespace of an instance with absence normalised to ''
NsNorm(i) == Coalesce(NsValue(i))

\* the keys and values the iterator specification writes
IterKeys == {"a", "k", "z"}
IterValues == {"v1"}

StoredKeys == {removeKeyPrefix(n, k) : n \in NsConfigs, k \in RawKeys}
NsNames == {Coalesce(n) : n \in (NsConfigs \ {UNDEFINED}) \cup {NULL}}

\* the calls of the model pass no ttl
TtlArgs == {NoExpires}
\* the entries passed to setMany carry no ttl
Entries == [key : RawKeys, value : Values, ttl : {NoExpires}]

PendIdle == [pc |-> "idle", key |-> "", seen |-> {}]
\* no event is scheduled and no adapter has been constructed: events: the
\* events of the database, by name, with the table their statement deletes
\* from; pc[i]: where the constructor's promise chain of adapter i stands;
\* interval[i]: the intervalExpiration option of adapter i, {} for undefined
SchedInit == [events |-> {},
              pc |-> [i \in Inst |-> "none"],
              interval |-> [i \in Inst |-> {}]]
ItIdle == [pc |-> "idle", inst |-> "i1", arg |-> UNDEFINED, limit |-> 0, lastKey |-> NULL,
           yielded |-> <<>>, stable |-> {}, quiet |-> TRUE, fetches |-> 0]

\* no settled call is waiting for its caller
NoCall == [op |-> "none", inst |-> "i1", keys |-> <<>>, ok |-> TRUE, res |-> UNDEFINED]

Call(op, i, keys, o) == [op |-> op, inst |-> i, keys |-> keys, ok |-> o.ok, res |-> o.res]

\* shadow after instance i (re)wrote the entries, in list order
RECURSIVE ShadowPut(_, _, _)
ShadowPut(sh, i, entries) ==
    IF entries = <<>> THEN sh
    ELSE ShadowPut([sh EXCEPT ![NsNorm(i)][removeKeyPrefix(ns[i], Head(entries).key)]
                                  = Head(entries).value],
                   i, Tail(entries))

\* shadow after instance i removed the keys
ShadowRemove(sh, i, keys) ==
    [sh EXCEPT ![NsNorm(i)] =
        [k \in StoredKeys |-> IF k \in {removeKeyPrefix(ns[i], x) : x \in Range(keys)}
                              THEN UNDEFINED ELSE @[k]]]

ShadowClear(sh, i) == [sh EXCEPT ![NsNorm(i)] = [k \in StoredKeys |-> UNDEFINED]]

\* shadow after a reaping pass took the store from st to st2
ShadowReap(sh, st, st2) ==
    [m \in NsNames |-> [k \in StoredKeys |->
        IF \E r \in st \ st2 : r.key = k /\ Coalesce(r.ns) = m THEN UNDEFINED ELSE sh[m][k]]]

TypeOK ==
    /\ mode \in Modes
    /\ ns \in [Inst -> NsConfigs]
    /\ \A r \in store : /\ r.key \in StoredKeys \cup IterKeys
                        /\ r.value \in Payloads
                        /\ r.id \in 0..(nextId - 1)
    /\ nextId \in 1..(MaxFiles + 1)

MaxPools == 2    \* pools created per behaviour
MaxEnds == 2     \* end() invocations per pool
PoolIds == 1..MaxPools
Callers == {"c1", "c2"}
PoolUris == {"u1", "u2"}
\* PoolConfig objects, as the list of their properties in the order written;
\* a value is written as its JSON text
Opt(k, v) == [key |-> k, value |-> v]
PoolConfigs == {<<>>,
                <<Opt("max", "1"), Opt("ssl", "true")>>,
                <<Opt("ssl", "true"), Opt("max", "1")>>,
                <<Opt("ssl", UNDEFINED)>>}
\* the argument pairs getPool and endPool are called with
PoolArg(uri, options) == [uri |-> uri, options |-> options]
PoolArgs == {PoolArg("u1", o) : o \in PoolConfigs} \cup
            {PoolArg("u2", <<>>), PoolArg("u2", <<Opt("ssl", UNDEFINED)>>)}
PoolCallIdle == [pc |-> "idle", key |-> "", pool |-> 0, rejected |-> FALSE]

\* pools: the Map of the pool manager; created: how many pg.Pool objects
\* exist (pool n is the n-th created); ends: how often end() was invoked on
\* each pool, by endPool and by endAllPools; calls: the endPool/endAllPools
\* call of each caller suspended at its await; got: what getPool returned
\* for each argument pair since the last endPool/endAllPools activity
PmInit == [pools |-> {},
           created |-> 0,
           ends |-> [p \in PoolIds |-> [one |-> 0, all |-> 0]],
           calls |-> [c \in Callers |-> PoolCallIdle],
           got |-> [a \in PoolArgs |-> 0]]
MaxOps == 2      \* operations issued per instance
\* the arguments of pool() in connect() and of endPool() in disconnect():
\* this._uri and { ...this._poolConfig, ssl: this._ssl } of an instance
\* constructed with the default options
InstPoolArg == PoolArg("u1", <<Opt("ssl", UNDEFINED)>>)
\* An instance after construction: its bootstrap is about to send statement
\* pc of its DDL sequence.  state: "booting" until the promise the query
\* function awaits settles, then "ready" (fulfilled) or "failed" (rejected);
\* sub: whether the running statement has passed its existence test;
\* conn: the pool the query function closes over (0: not a pg pool);
\* expected/other: an already-applied / any other error was raised;
\* emitted: an "error" event was emitted; issued/waiting: operations called
\* so far / called and still awaiting the bootstrap; early: a data query
\* was sent before the bootstrap had settled; closed: disconnect() returned;
\* arg: this._uri and { ...this._poolConfig, ssl: this._ssl } as they are now
InstInit == [state |-> "booting", pc |-> 1, sub |-> "start", conn |-> 0,
             expected |-> FALSE, other |-> FALSE, emitted |-> FALSE,
             issued |-> 0, waiting |-> 0, early |-> FALSE, closed |-> FALSE,
             arg |-> InstPoolArg]
\* shape: what the table has of: "table", "namespace" (column), "pkey" (the
\* old primary key on the key alone), "unique" (the composite unique
\* index), "expires" (column), "expires_idx"
BootInit == [shape |-> {}, inst |-> [i \in Inst |-> InstInit]]

MaxRows == 3     \* rows of the table the migration script runs on
MaxRuns == 2     \* runs of the migration script per behaviour
\* The migration script before it is started.  pc: the statement it is about
\* to send ("idle": not running, "done": the process has exited); dryRun:
\* the --dry-run flag; before: the rows of the table when the run started;
\* exit: the exit code of the process; runs: how many runs were started;
\* passed: the run committed its namespace UPDATE; prevOk: the run before
\* this one was not a dry run and exited with code 0
MigIdle == [pc |-> "idle", dryRun |-> FALSE, before |-> {}, exit |-> 0,
            runs |-> 0, passed |-> FALSE, prevOk |-> FALSE]

Init ==
    /\ mode \in Modes
    /\ ns \in NsPairs
    /\ store = {}
    /\ nextId = 1
    /\ last = NoCall
    /\ shadow = [m \in NsNames |-> [k \in StoredKeys |-> UNDEFINED]]
    /\ pend = [i \in Inst |-> PendIdle]
    /\ it = ItIdle
    /\ it2 = ItIdle
    /\ sched = SchedInit
    /\ clock = 0
    /\ pm = PmInit
    /\ boot = BootInit
    /\ mig = MigIdle

GetOut(i, key) ==
    CASE mode = "mysql" -> KeyvMysql_get(store, ns[i], key)
      [] mode = "postgres" -> KeyvPostgres_get(store, ns[i], key)
      [] OTHER -> KeyvMongo_get(store, IsGridFS, ns[i], key)

GetManyOut(i, keys) ==
    CASE mode = "mysql" -> KeyvMysql_getMany(store, ns[i], keys)
      [] mode = "postgres" -> KeyvPostgres_getMany(store, ns[i], keys)
      [] OTHER -> KeyvMongo_getMany(store, IsGridFS, ns[i], keys)

HasOut(i, key) ==
    CASE mode = "mysql" -> KeyvMysql_has(store, ns[i], key)
      [] mode = "postgres" -> KeyvPostgres_has(store, ns[i], key)
      [] OTHER -> KeyvMongo_has(store, IsGridFS, ns[i], key)

HasManyOut(i, keys) ==
    CASE mode = "mysql" -> KeyvMysql_hasMany(store, ns[i], keys)
      [] mode = "postgres" -> KeyvPostgres_hasMany(store, ns[i], keys)
      [] OTHER -> KeyvMongo_hasMany(store, IsGridFS, ns[i], keys)

SetOut(i, key, value, ttl, now) ==
    CASE mode = "mysql" -> KeyvMysql_set(store, ns[i], key, value)
      [] mode = "postgres" -> KeyvPostgres_set(store, ns[i], key, value)
      [] OTHER -> KeyvMongo_set(store, IsGridFS, ns[i], key, value, ttl, now, nextId)

SetManyOut(i, entries, now) ==
    CASE mode = "mysql" -> KeyvMysql_setMany(store, ns[i], entries)
      [] mode = "postgres" -> KeyvPostgres_setMany(store, ns[i], entries)
      [] OTHER -> KeyvMongo_setMany(store, IsGridFS, ns[i], entries, now, nextId)

DeleteOut(i, key) ==
    CASE mode = "mysql" -> KeyvMysql_delete(store, ns[i], key)
      [] mode = "postgres" -> KeyvPostgres_delete(store, ns[i], key)
      [] OTHER -> KeyvMongo_delete(store, IsGridFS, ns[i], key)

DeleteManyOut(i, keys) ==
    CASE mode = "mysql" -> KeyvMysql_deleteMany(store, ns[i], keys)
      [] mode = "postgres" -> KeyvPostgres_deleteMany(store, ns[i], keys)
      [] OTHER -> KeyvMongo_deleteMany(store, IsGridFS, ns[i], keys)

ClearOut(i) ==
    CASE mode = "mysql" -> KeyvMysql_clear(store, ns[i])
      [] mode = "postgres" -> KeyvPostgres_clear(store, ns[i])
      [] OTHER -> KeyvMongo_clear(store, IsGridFS, ns[i])

\* the class KeyvPostgres defines no clearExpired: calling it throws a
\* TypeError
ClearExpiredOut(i, now) ==
    CASE mode = "mysql" -> KeyvMysql_clearExpired(store, now)
      [] mode = "postgres" -> {Rejected(store)}
      [] OTHER -> KeyvMongo_clearExpired(store, IsGridFS, ns[i], now)

\* the caller starts a call once the previous one has settled and it has
\* taken the result
Ready == last.op = "none"

\* the caller takes the result of the settled call and goes on
Resume ==
    /\ ~Ready
    /\ last' = NoCall
    /\ UNCHANGED <<sched, it2, env, mode, ns, store, nextId, shadow, pend, it>>

\* Date.now() is read by set() only when a ttl is passed
NowArgs(ttl) == IF ttl = NoExpires THEN {0} ELSE Clock

\* GridFS uploads are counted against MaxFiles
Uploads(m) == IF IsGridFS THEN m ELSE 0

Get(i, key) ==
    /\ Ready
    /\ \E o \in GetOut(i, key) :
        /\ last' = Call("get", i, <<key>>, o)
        /\ UNCHANGED <<sched, it2, env, mode, ns, store, nextId, shadow, pend, it>>

GetMany(i, keys) ==
    /\ Ready
    /\ \E o \in GetManyOut(i, keys) :
        /\ last' = Call("getMany", i, keys, o)
        /\ UNCHANGED <<sched, it2, env, mode, ns, store, nextId, shadow, pend, it>>

Has(i, key) ==
    /\ Ready
    /\ \E o \in HasOut(i, key) :
        /\ last' = Call("has", i, <<key>>, o)
        /\ UNCHANGED <<sched, it2, env, mode, ns, store, nextId, shadow, pend, it>>

HasMany(i, keys) ==
    /\ Ready
    /\ \E o \in HasManyOut(i, keys) :
        /\ last' = Call("hasMany", i, keys, o)
        /\ UNCHANGED <<sched, it2, env, mode, ns, store, nextId, shadow, pend, it>>

Set(i, key, value, ttl, now) ==
    /\ Ready
    /\ nextId + Uploads(1) <= MaxFiles + 1
    /\ \E o \in SetOut(i, key, value, ttl, now) :
        /\ store' = o.store
        /\ nextId' = nextId + Uploads(1)
        /\ last' = Call("set", i, <<key>>, o)
        /\ shadow' = IF o.ok THEN ShadowPut(shadow, i, <<[key |-> key, value |-> value]>>)
                     ELSE shadow
        /\ UNCHANGED <<sched, it2, env, mode, ns, pend, it>>

SetMany(i, entries, now) ==
    /\ Ready
    /\ nextId + Uploads(Len(entries)) <= MaxFiles + 1
    /\ \E o \in SetManyOut(i, entries, now) :
        /\ store' = o.store
        /\ nextId' = nextId + Uploads(Len(entries))
        /\ last' = Call("setMany", i, MapSeq(LAMBDA e : e.key, entries), o)
        /\ shadow' = IF o.ok THEN ShadowPut(shadow, i, entries) ELSE shadow
        /\ UNCHANGED <<sched, it2, env, mode, ns, pend, it>>

Delete(i, key) ==
    /\ Ready
    /\ \E o \in DeleteOut(i, key) :
        /\ store' = o.store
        /\ last' = Call("delete", i, <<key>>, o)
        /\ shadow' = IF o.ok THEN ShadowRemove(shadow, i, <<key>>) ELSE shadow
        /\ UNCHANGED <<sched, it2, env, mode, ns, nextId, pend, it>>

DeleteMany(i, keys) ==
    /\ Ready
    /\ \E o \in DeleteManyOut(i, keys) :
        /\ store' = o.store
        /\ last' = Call("deleteMany", i, keys, o)
        /\ shadow' = IF o.ok THEN ShadowRemove(shadow, i, keys) ELSE shadow
        /\ UNCHANGED <<sched, it2, env, mode, ns, nextId, pend, it>>

Clear(i) ==
    /\ Ready
    /\ \E o \in ClearOut(i) :
        /\ store' = o.store
        /\ last' = Call("clear", i, <<>>, o)
        /\ shadow' = ShadowClear(shadow, i)
        /\ UNCHANGED <<sched, it2, env, mode, ns, nextId, pend, it>>

\* KeyvPostgres has no clearExpired
ClearExpired(i, now) ==
    /\ Ready
    /\ mode # "postgres"
    /\ \E o \in ClearExpiredOut(i, now) :
        /\ store' = o.store
        /\ last' = Call("clearExpired", i, <<>>, o)
        /\ shadow' = ShadowReap(shadow, store, o.store)
        /\ UNCHANGED <<sched, it2, env, mode, ns, nextId, pend, it>>

KeyLists == SeqsUpTo(RawKeys, MaxLen)

Next ==
    \/ \E i \in Inst, key \in RawKeys : Get(i, key)
    \/ \E i \in Inst, keys \in KeyLists : GetMany(i, keys)
    \/ \E i \in Inst, key \in RawKeys : Has(i, key)
    \/ \E i \in Inst, keys \in KeyLists : HasMany(i, keys)
    \/ \E i \in Inst, key \in RawKeys, value \in Values, ttl \in TtlArgs :
          \E now \in NowArgs(ttl) : Set(i, key, value, ttl, now)
    \/ \E i \in Inst, entries \in SeqsUpTo(Entries, MaxLen) :
          SetMany(i, entries, 0)
    \/ \E i \in Inst, key \in RawKeys : Delete(i, key)
    \/ \E i \in Inst, keys \in KeyLists : DeleteMany(i, keys)
    \/ \E i \in Inst : Clear(i)
    \/ \E i \in Inst, now \in Clock : ClearExpired(i, now)
    \/ Resume

Spec == Init /\ [][Next]_vars

---------------------------------------------------------------------------
(* Properties of the awaited calls (specification Spec) *)

\* the rows outside the (normalised) namespace of instance i
OtherRows(st, i) == {r \in st : Coalesce(r.ns) # NsNorm(i)}

\* the rows of the (normalised) namespace of instance i stored under its key
OwnRows(st, i, key) ==
    {r \in st : r.key = removeKeyPrefix(ns[i], key) /\ Coalesce(r.ns) = NsNorm(i)}

\* no other instance is configured with the namespace of instance i
Solo(i) == \A j \in Inst \ {i} : NsNorm(j) # NsNorm(i)

IsolatedOps == {"get", "getMany", "set", "setMany", "delete", "deleteMany",
                "has", "hasMany", "clear"}

C2_GetReturnsLastSet ==
    (last.op = "get" /\ Solo(last.inst)) =>
        /\ last.ok
        /\ last.res = shadow[NsNorm(last.inst)][removeKeyPrefix(ns[last.inst], last.keys[1])]

\* C3: the store holds at most one entry per (key, namespace) pair.
C3_UniqueKeyNamespace ==
    \A r, q \in store : (r.key = q.key /\ Coalesce(r.ns) = Coalesce(q.ns)) => r = q

\* C7: getMany(keys) resolves with a list as long as keys whose n-th
\* element is what get(keys[n]) returns in the same state.
C7_GetManyMatchesGet ==
    last.op = "getMany" =>
        /\ last.ok
        /\ Len(last.res) = Len(last.keys)
        /\ \A m \in 1..Len(last.keys) :
              last.res[m] \in {o.res : o \in GetOut(last.inst, last.keys[m])}

\* C8: hasMany(keys) resolves with a list as long as keys whose n-th
\* element is has(keys[n]) in the same state, true exactly for the keys
\* that exist in the adapter's namespace.
C8_HasManyMatchesHas ==
    last.op = "hasMany" =>
        /\ last.ok
        /\ Len(last.res) = Len(last.keys)
        /\ \A m \in 1..Len(last.keys) :
              /\ \A o \in HasOut(last.inst, last.keys[m]) : last.res[m] = o.res
              /\ last.res[m] = (OwnRows(store, last.inst, last.keys[m]) # {})

\* C8 witness: hasMany of two keys answered <<FALSE, TRUE>>
C8_Witness ==
    /\ last.op = "hasMany"
    /\ last.ok
    /\ last.res = <<FALSE, TRUE>>

\* has(k) is false for every key on instance i
NoEntryVisible(i) == \A k \in RawKeys : \A o \in HasOut(i, k) : o.ok /\ o.res = FALSE

\* C9: after clear() on an adapter, has(k) is false for every key on that
\* adapter, whatever its namespace configuration (unset and '' included),
\* and the entries of other namespaces are unchanged.
C9_ClearEmptiesNamespace ==
    [][/\ (last.op = "clear" => NoEntryVisible(last.inst))'
       /\ last'.op = "clear" =>
             OtherRows(store', last'.inst) = OtherRows(store, last'.inst)
      ]_vars

\* some listed key is stored in the namespace of instance i
AnyListed(st, i, keys) == \E m \in 1..Len(keys) : OwnRows(st, i, keys[m]) # {}

\* the rows addressed by none of the listed keys
Unlisted(st, i, keys) == st \ UNION {OwnRows(st, i, keys[m]) : m \in 1..Len(keys)}

\* C10: deleteMany(keys) returns true iff one of the keys existed in the
\* adapter's namespace and was removed; when none exists it returns false
\* and leaves the store unchanged; afterwards none of the listed keys
\* exists and the entries not listed are unchanged.
C10_DeleteMany ==
    [][last'.op = "deleteMany" =>
          /\ last'.ok
          /\ last'.res = AnyListed(store, last'.inst, last'.keys)
          /\ ~AnyListed(store, last'.inst, last'.keys) => store' = store
          /\ ~AnyListed(store', last'.inst, last'.keys)
          /\ Unlisted(store', last'.inst, last'.keys) = Unlisted(store, last'.inst, last'.keys)
      ]_vars

---------------------------------------------------------------------------
(* Concurrent delete calls (specification SpecDel).  A call suspends at    *)
(* each query it awaits; calls of other instances run in between.  last    *)
(* is the call that settled at the step just taken (NoCall if none did).   *)

\* bucket.delete(id): removes the file, or throws when no file has that _id
BucketDelete(st, id) ==
    IF \E f \in st : f.id = id THEN Outcome({f \in st : f.id # id}, TRUE)
    ELSE Rejected(st)

\* a set() call of instance i (one statement, or one upload)
DelSet(i, key, value) ==
    /\ nextId + Uploads(1) <= MaxFiles + 1
    /\ \E o \in SetOut(i, key, value, NoExpires, 0) :
        /\ store' = o.store
        /\ nextId' = nextId + Uploads(1)
        /\ last' = Call("set", i, <<key>>, o)
        /\ UNCHANGED <<sched, it2, env, mode, ns, shadow, pend, it>>

\* delete(): KeyvPostgres and KeyvMongo (standard mode) issue one statement
DeleteAtomic(i, key) ==
    /\ mode \in {"postgres", "mongo"}
    /\ pend[i].pc = "idle"
    /\ \E o \in DeleteOut(i, key) :
        /\ store' = o.store
        /\ last' = Call("delete", i, <<key>>, o)
        /\ UNCHANGED <<sched, it2, env, mode, ns, nextId, shadow, pend, it>>

\* KeyvMysql.delete up to "await this.query(select)" and the test of rows[0]
MysqlDeleteRead(i, key) ==
    /\ mode = "mysql"
    /\ pend[i].pc = "idle"
    /\ IF MysqlDeleteSelect(store, ns[i], key)
       THEN /\ pend' = [pend EXCEPT ![i] = [pc |-> "delete", key |-> key, seen |-> {}]]
            /\ last' = NoCall
       ELSE /\ pend' = pend
            /\ last' = Call("delete", i, <<key>>, Outcome(store, FALSE))
    /\ UNCHANGED <<sched, it2, env, mode, ns, store, nextId, shadow, it>>

\* KeyvMysql.delete from "await this.query(del)" to "return true"
MysqlDeleteWrite(i) ==
    /\ mode = "mysql"
    /\ pend[i].pc = "delete"
    /\ store' = MysqlDeleteExec(store, ns[i], pend[i].key)
    /\ last' = Call("delete", i, <<pend[i].key>>, Outcome(store', TRUE))
    /\ pend' = [pend EXCEPT ![i] = PendIdle]
    /\ UNCHANGED <<sched, it2, env, mode, ns, nextId, shadow, it>>

\* KeyvMongo.delete in GridFS mode up to the test of files.length
GridfsDeleteFind(i, key) ==
    /\ mode = "gridfs"
    /\ pend[i].pc = "idle"
    /\ LET files == MongoDeleteFind(store, ns[i], key)
       IN IF files = {}
          THEN /\ pend' = pend
               /\ last' = Call("delete", i, <<key>>, Outcome(store, FALSE))
          ELSE /\ \E f \in files :
                    pend' = [pend EXCEPT ![i] = [pc |-> "delete", key |-> key,
                                                 seen |-> {f.id}]]
               /\ last' = NoCall
    /\ UNCHANGED <<sched, it2, env, mode, ns, store, nextId, shadow, it>>

\* KeyvMongo.delete in GridFS mode: bucket.delete(files[0]._id), true when
\* it resolves, false from the catch block when it throws
GridfsDeleteFile(i) ==
    /\ mode = "gridfs"
    /\ pend[i].pc = "delete"
    /\ \E id \in pend[i].seen :
          LET o == BucketDelete(store, id)
          IN /\ store' = o.store
             /\ last' = Call("delete", i, <<pend[i].key>>, Outcome(o.store, o.ok))
    /\ pend' = [pend EXCEPT ![i] = PendIdle]
    /\ UNCHANGED <<sched, it2, env, mode, ns, nextId, shadow, it>>

NextDel ==
    \/ \E i \in Inst, key \in RawKeys, value \in Values : DelSet(i, key, value)
    \/ \E i \in Inst, key \in RawKeys : DeleteAtomic(i, key)
    \/ \E i \in Inst, key \in RawKeys : MysqlDeleteRead(i, key)
    \/ \E i \in Inst : MysqlDeleteWrite(i)
    \/ \E i \in Inst, key \in RawKeys : GridfsDeleteFind(i, key)
    \/ \E i \in Inst : GridfsDeleteFile(i)

SpecDel == Init /\ [][NextDel]_vars

\* C4: delete(key) returns true if and only if this very call removed the
\* entry: of several concurrent deletes of one entry exactly one returns
\* true, and delete of a key that does not exist returns false.
C4_DeleteTrueIffRemoved ==
    [][last'.op = "delete" => (last'.ok /\ last'.res = (store' # store))]_vars

---------------------------------------------------------------------------
(* The SQL adapters' iterator (specification SpecIter): one generator      *)
(* call, suspended at each page query, with set() and delete() calls of    *)
(* the instances running between its pages.                                *)

MaxIterationLimit == 2   \* largest iterationLimit option
IterationLimits == 0..MaxIterationLimit
IterArgs == {UNDEFINED, "", "a"}
\* the values of the _iterationLimit field: the iterationLimit option, or
\* the initial value of the field when the option is not set
IterationLimitFields == IterationLimits \cup {10}
DefaultIterationLimit == 10

\* variant of IterLimit that takes the configured value as it is
IterLimit_AsConfigured(iterationLimit) == iterationLimit

\* limit = Number.parseInt(String(this._iterationLimit), 10) || 10
IterLimit(iterationLimit) ==
    IF iterationLimit = 0 THEN DefaultIterationLimit ELSE iterationLimit

\* namespaceValue: "namespace ?? ''" (KeyvMysql, KeyvMongo),
\* "namespace ?? null" (KeyvPostgres)
IterNamespaceValue(m, arg) ==
    IF arg # UNDEFINED THEN arg ELSE IF m = "postgres" THEN NULL ELSE ""

\* the rows "WHERE namespace = ?" / "WHERE namespace IS NULL" selects
IterNamespaceRows(st, m, arg) ==
    {r \in st : r.ns = IterNamespaceValue(m, arg)}

Take(s, n) == SubSeq(s, 1, IF Len(s) < n THEN Len(s) ELSE n)

\* variant of IterPage whose cursor comparison is "id >= lastKey"
IterPage_FromCursor(st, m, arg, lastKey, limit) ==
    Take(RowsSeq({r \in IterNamespaceRows(st, m, arg) :
                     lastKey = NULL \/ ~StrLess(r.key, lastKey)}), limit)

\* one page: [AND id > lastKey] ORDER BY id LIMIT limit
IterPage(st, m, arg, lastKey, limit) ==
    Take(RowsSeq({r \in IterNamespaceRows(st, m, arg) :
                     lastKey = NULL \/ StrLess(lastKey, r.key)}), limit)

\* variant of PrefixedKey that yields the stored key as it is
PrefixedKey_Stored(arg, key) == key

\* prefixedKey = namespace ? `${namespace}:${entry.key}` : entry.key
PrefixedKey(arg, key) == IF Truthy(arg) THEN arg \o ":" \o key ELSE key

YieldEntry(arg, r) == <<PrefixedKey(arg, r.key), r.value>>

\* variant of IterLastPage that goes on after a short page
IterLastPage_Never(entries, limit) == FALSE

\* variant of IterLastPage that also stops after a full page
IterLastPage_WhenFull(entries, limit) == Len(entries) <= limit

\* "if (entries.length < limit) return" after the page has been yielded
IterLastPage(entries, limit) == Len(entries) < limit

\* the frame of a call of iterator(): limit, namespaceValue, "let lastKey = null"
IterFrame(i, arg, iterationLimit) ==
    [pc |-> "fetch", inst |-> i, arg |-> arg,
     limit |-> IterLimit(iterationLimit), lastKey |-> NULL,
     yielded |-> <<>>,
     stable |-> {r.key : r \in IterNamespaceRows(store, mode, arg)},
     quiet |-> TRUE, fetches |-> 0]

\* the frame f after one turn of its while loop
IterTurn(f) ==
    LET entries == IterPage(store, mode, f.arg, f.lastKey, f.limit)
    IN [f EXCEPT
          !.fetches = @ + 1,
          !.yielded = @ \o [n \in 1..Len(entries) |->
                                YieldEntry(f.arg, entries[n])],
          !.lastKey = IF entries = <<>> THEN @
                      ELSE entries[Len(entries)].key,
          !.pc = IF entries = <<>> \/ IterLastPage(entries, f.limit)
                 THEN "done" ELSE "fetch"]

IterateStart(i, arg, iterationLimit) ==
    /\ it.pc = "idle"
    /\ it' = IterFrame(i, arg, iterationLimit)
    /\ UNCHANGED <<sched, it2, env, mode, ns, store, nextId, last, shadow, pend>>

\* one turn of the while loop: the page query, the yields, the exit tests
IterateFetch ==
    /\ it.pc = "fetch"
    /\ mode \in {"mysql", "postgres"}
    /\ it' = IterTurn(it)
    /\ UNCHANGED <<sched, it2, env, mode, ns, store, nextId, last, shadow, pend>>

\* what a write between two pages does to the bookkeeping of the iteration
IterObserve(st) ==
    IF it.pc = "idle" THEN it
    ELSE [it EXCEPT
            !.quiet = FALSE,
            !.stable = IF it.pc = "fetch"
                       THEN @ \cap {r.key : r \in IterNamespaceRows(st, mode, it.arg)}
                       ELSE @]

IterSet(i, key, value) ==
    /\ \E o \in SetOut(i, key, value, NoExpires, 0) :
        /\ o.store # store
        /\ store' = o.store
        /\ it' = IterObserve(o.store)
    /\ UNCHANGED <<sched, it2, env, mode, ns, nextId, last, shadow, pend>>

IterDelete(i, key) ==
    /\ \E o \in DeleteOut(i, key) :
        /\ o.store # store
        /\ store' = o.store
        /\ it' = IterObserve(o.store)
    /\ UNCHANGED <<sched, it2, env, mode, ns, nextId, last, shadow, pend>>

InitIter == Init /\ mode \in {"mysql", "postgres"}

NextIter ==
    \/ \E i \in Inst, arg \in IterArgs, l \in IterationLimitFields : IterateStart(i, arg, l)
    \/ IterateFetch
    \/ \E i \in Inst, key \in IterKeys, value \in IterValues : IterSet(i, key, value)
    \/ \E i \in Inst, key \in IterKeys : IterDelete(i, key)

SpecIter == InitIter /\ [][NextIter]_vars

YieldedKeys == {it.yielded[n][1] : n \in 1..Len(it.yielded)}

NoKeyYieldedTwice ==
    \A m, n \in 1..Len(it.yielded) :
        m # n => it.yielded[m][1] # it.yielded[n][1]

\* C5: with no concurrent modification, iterator(ns) yields every entry of
\* the namespace exactly once, in ascending key order, for every page size.
C5_IteratorComplete ==
    (it.pc = "done" /\ it.quiet) =>
        /\ {it.yielded[n] : n \in 1..Len(it.yielded)} =
               {YieldEntry(it.arg, r) : r \in IterNamespaceRows(store, mode, it.arg)}
        /\ NoKeyYieldedTwice
        /\ \A m, n \in 1..Len(it.yielded) :
               m < n => StrLess(it.yielded[m][1], it.yielded[n][1])

C5_Witness ==
    /\ it.pc = "done" /\ it.quiet
    /\ it.limit = 2 /\ it.fetches = 2
    /\ Len(it.yielded) = 3

\* C6: under concurrent deletes and inserts the iterator never yields a key
\* twice, and yields exactly once every key present from the start of the
\* iteration to its end.
C6_IteratorUnderWrites ==
    /\ NoKeyYieldedTwice
    /\ it.pc = "done" =>
          \A key \in it.stable : PrefixedKey(it.arg, key) \in YieldedKeys

C6_Witness ==
    /\ it.pc = "done" /\ ~it.quiet
    /\ it.fetches >= 2
    /\ it.stable # {}
    /\ Len(it.yielded) > Cardinality(it.stable)

---------------------------------------------------------------------------
(* The expires column of KeyvMysql (specification SpecExp): set, setMany   *)
(* and clearExpired calls of two instances, each a single statement, in    *)
(* any order, with the clock advancing between them.                       *)

\* the entries setMany is called with (set is called with every payload)
ExpEntries == [key : {"k"}, value : {"v1", JsonWithExpires, JsonStringExpires},
               ttl : {NoExpires}]

InitExp == Init /\ mode = "mysql"

\* Date.now() advances
Tick ==
    /\ clock < MaxNow
    /\ clock' = clock + 1
    /\ last' = NoCall
    /\ UNCHANGED <<sched, it2, pm, boot, mig, mode, ns, store, nextId, shadow, pend, it>>

ExpSet(i, key, value) ==
    /\ \E o \in KeyvMysql_set(store, ns[i], key, value) :
        /\ store' = o.store
        /\ last' = Call("set", i, <<>>, o)
    /\ UNCHANGED <<sched, it2, env, mode, ns, nextId, shadow, pend, it>>

ExpSetMany(i, entries) ==
    /\ \E o \in KeyvMysql_setMany(store, ns[i], entries) :
        /\ store' = o.store
        /\ last' = Call("setMany", i, <<>>, o)
    /\ UNCHANGED <<sched, it2, env, mode, ns, nextId, shadow, pend, it>>

ExpClearExpired(i) ==
    /\ \E o \in KeyvMysql_clearExpired(store, clock) :
        /\ store' = o.store
        /\ last' = Call("clearExpired", i, <<>>, o)
    /\ UNCHANGED <<sched, it2, env, mode, ns, nextId, shadow, pend, it>>

NextExp ==
    \/ Tick
    \/ \E i \in Inst, key \in RawKeys, value \in Payloads : ExpSet(i, key, value)
    \/ \E i \in Inst, entries \in SeqsUpTo(ExpEntries, MaxLen) : ExpSetMany(i, entries)
    \/ \E i \in Inst : ExpClearExpired(i)

SpecExp == InitExp /\ [][NextExp]_vars

\* the numeric expires field a payload carries, if any
ExpiresFieldOf(value) ==
    IF value = JsonWithExpires THEN {1}
    ELSE IF value = JsonLaterExpires THEN {2}
    ELSE NoExpires

\* C11: in the MySQL adapter, after any interleaving of set and setMany
\* calls, every row's expires column equals the numeric expires field of
\* that row's stored value and is null when the value has none (not JSON,
\* not an object, no numeric expires); set and setMany never fail on a
\* malformed payload.
C11_ExpiresMatchesValue ==
    /\ \A r \in store : r.expires = ExpiresFieldOf(r.value)
    /\ last.op \in {"set", "setMany"} => last.ok

\* C11 witness: an upsert has left rows of both kinds, one whose payload
\* carries a numeric expires and one whose payload is not JSON
C11_Witness ==
    /\ last.op = "setMany" /\ last.ok
    /\ \E r \in store : r.value = JsonWithExpires /\ r.expires = {1}
    /\ \E r \in store : r.value = "v1" /\ r.expires = NoExpires

\* C12: MySQL clearExpired() removes exactly the entries whose expires is
\* non-null and less than the clock value at the call and leaves every
\* other entry unchanged; a second call with nothing newly expired changes
\* nothing.
C12_ClearExpiredExact ==
    [][last'.op = "clearExpired" =>
          /\ last'.ok
          /\ store' \subseteq store
          /\ \A r \in store : r \notin store' <=> (\E e \in r.expires : e < clock)
          /\ \A o \in KeyvMysql_clearExpired(store', clock) : o.store = store'
      ]_vars

\* C12 witness: clearExpired has removed an expired row and kept a row
\* whose expires equals the clock and a row without expires
C12_Witness ==
    /\ last.op = "clearExpired"
    /\ \E r \in store : r.expires = {clock}
    /\ \E r \in store : r.expires = NoExpires
    /\ ~\E r \in store : \E e \in r.expires : e < clock
    /\ clock = 2

---------------------------------------------------------------------------
(* The pool manager of pool.ts (specification SpecPool): getPool,          *)
(* endPool and endAllPools calls of several callers; endPool and           *)
(* endAllPools suspend at their await.                                     *)

RECURSIVE SortKeys(_)
\* Object.keys(options).sort()
SortKeys(S) ==
    IF S = {} THEN <<>>
    ELSE LET k == CHOOSE x \in S : \A y \in S : ~StrLess(y, x)
         IN <<k>> \o SortKeys(S \ {k})

OptionKeys(options) == {options[n].key : n \in 1..Len(options)}
OptionValue(options, k) ==
    (CHOOSE e \in Range(options) : e.key = k).value

RECURSIVE JSONStringifyProps(_, _, _)
\* the properties of JSON.stringify(sorted): a property whose value is
\* undefined is left out
JSONStringifyProps(options, keys, first) ==
    IF keys = <<>> THEN ""
    ELSE LET v == OptionValue(options, Head(keys))
         IN IF v = UNDEFINED
            THEN JSONStringifyProps(options, Tail(keys), first)
            ELSE (IF first THEN "" ELSE ",") \o "\"" \o Head(keys) \o "\":" \o v
                 \o JSONStringifyProps(options, Tail(keys), FALSE)

\* variant of getCacheKey that serializes the properties in the order written
getCacheKey_AsWritten(uri, options) ==
    uri \o "::{" \o JSONStringifyProps(options,
                       [n \in 1..Len(options) |-> options[n].key], TRUE) \o "}"

getCacheKey(uri, options) ==
    uri \o "::{" \o JSONStringifyProps(options, SortKeys(OptionKeys(options)), TRUE) \o "}"

\* pools.get(key): the pool cached under key, 0 for undefined
PoolsGet(key) ==
    IF \E e \in pm.pools : e.key = key
    THEN (CHOOSE e \in pm.pools : e.key = key).pool
    ELSE 0

PoolEnded(p) == pm.ends[p].one + pm.ends[p].all > 0

NoGot == [a \in PoolArgs |-> 0]

\* the cache key of each argument pair
CacheKeyOf == [a \in PoolArgs |-> getCacheKey(a.uri, a.options)]

getPool(uri, options) ==
    LET key == CacheKeyOf[PoolArg(uri, options)]
        existingPool == PoolsGet(key)
        pool == IF existingPool = 0 THEN pm.created + 1 ELSE existingPool
    IN /\ pool <= MaxPools
       /\ pm' = [pm EXCEPT
                   !.created = IF existingPool = 0 THEN pool ELSE @,
                   !.pools = IF existingPool = 0
                             THEN @ \cup {[key |-> key, pool |-> pool]} ELSE @,
                   !.got = [@ EXCEPT ![[uri |-> uri, options |-> options]] = pool]]
       /\ last' = [op |-> "getPool", inst |-> "i1", keys |-> <<>>, ok |-> TRUE,
                   res |-> UNDEFINED]
       /\ UNCHANGED <<sched, it2, clock, boot, mig, mode, ns, store, nextId, shadow, pend, it>>

\* endPool up to "await existingPool.end()"; end() on a pool that was ended
\* before may resolve or reject
endPoolAwait(c, uri, options) ==
    LET key == CacheKeyOf[PoolArg(uri, options)]
        existingPool == PoolsGet(key)
    IN /\ pm.calls[c].pc = "idle"
       /\ IF existingPool = 0
          THEN /\ pm' = [pm EXCEPT !.got = NoGot]
               /\ last' = [op |-> "endPool", inst |-> "i1", keys |-> <<>>,
                           ok |-> TRUE, res |-> UNDEFINED]
          ELSE /\ pm.ends[existingPool].one + pm.ends[existingPool].all < MaxEnds
               /\ \E rejected \in (IF PoolEnded(existingPool) THEN BOOLEAN ELSE {FALSE}) :
                    pm' = [pm EXCEPT
                             !.ends[existingPool].one = @ + 1,
                             !.calls[c] = [pc |-> "endPool", key |-> key,
                                           pool |-> existingPool,
                                           rejected |-> rejected],
                             !.got = NoGot]
               /\ last' = NoCall

endPoolCall(c, uri, options) ==
    /\ endPoolAwait(c, uri, options)
    /\ UNCHANGED <<sched, it2, clock, boot, mig, mode, ns, store, nextId, shadow, pend, it>>

\* endPool from the await on: pools.delete(key), unless end() rejected
endPoolDelete(c) ==
    /\ pm.calls[c].pc = "endPool"
    /\ pm' = [pm EXCEPT
                !.pools = IF pm.calls[c].rejected THEN @
                          ELSE {e \in @ : e.key # pm.calls[c].key},
                !.calls[c] = PoolCallIdle,
                !.got = NoGot]
    /\ last' = [op |-> "endPool", inst |-> "i1", keys |-> <<>>,
                ok |-> ~pm.calls[c].rejected, res |-> UNDEFINED]

endPoolResume(c) ==
    /\ endPoolDelete(c)
    /\ UNCHANGED <<sched, it2, clock, boot, mig, mode, ns, store, nextId, shadow, pend, it>>

\* endAllPools up to "await Promise.all(endings)"
endAllPoolsCall(c) ==
    LET cached == {e.pool : e \in pm.pools}
    IN /\ pm.calls[c].pc = "idle"
       /\ \A p \in cached : pm.ends[p].one + pm.ends[p].all < MaxEnds
       /\ \E rejected \in (IF \E p \in cached : PoolEnded(p) THEN BOOLEAN ELSE {FALSE}) :
            pm' = [pm EXCEPT
                     !.ends = [p \in PoolIds |->
                                 IF p \in cached THEN [@[p] EXCEPT !.all = @ + 1]
                                 ELSE @[p]],
                     !.calls[c] = [pc |-> "endAllPools", key |-> "", pool |-> 0,
                                   rejected |-> rejected],
                     !.got = NoGot]
       /\ last' = NoCall
       /\ UNCHANGED <<sched, it2, clock, boot, mig, mode, ns, store, nextId, shadow, pend, it>>

\* endAllPools from the await on: pools.clear(), unless an end() rejected
endAllPoolsResume(c) ==
    /\ pm.calls[c].pc = "endAllPools"
    /\ pm' = [pm EXCEPT
                !.pools = IF pm.calls[c].rejected THEN @ ELSE {},
                !.calls[c] = PoolCallIdle,
                !.got = NoGot]
    /\ last' = [op |-> "endAllPools", inst |-> "i1", keys |-> <<>>,
                ok |-> ~pm.calls[c].rejected, res |-> UNDEFINED]
    /\ UNCHANGED <<sched, it2, clock, boot, mig, mode, ns, store, nextId, shadow, pend, it>>

InitPool == Init /\ mode = "postgres" /\ ns = [i1 |-> UNDEFINED, i2 |-> "a"]

NextPool ==
    \/ \E a \in PoolArgs : getPool(a.uri, a.options)
    \/ \E c \in Callers, a \in PoolArgs : endPoolCall(c, a.uri, a.options)
    \/ \E c \in Callers : endPoolResume(c)
    \/ \E c \in Callers : endAllPoolsCall(c)
    \/ \E c \in Callers : endAllPoolsResume(c)

SpecPool == InitPool /\ [][NextPool]_vars

\* a PoolConfig as a map from key to value; a property written with the
\* value undefined counts as absent
ConfigMap(options) ==
    {e \in Range(options) : e.value # UNDEFINED}

\* C17: two getPool calls with no endPool/endAllPools between them return
\* the same pool if and only if their URIs are equal and their
\* configurations are equal as key-to-value maps, whatever the order in
\* which the keys were written.
C17_SamePoolIffSameConfig ==
    \A a, b \in PoolArgs :
        (pm.got[a] # 0 /\ pm.got[b] # 0) =>
            (pm.got[a] = pm.got[b] <=>
                (a.uri = b.uri /\ ConfigMap(a.options) = ConfigMap(b.options)))

\* C17 witness: the two key orders of one configuration got the same pool,
\* and a different configuration of the same URI got another pool
C17_Witness ==
    LET ms == [uri |-> "u1", options |-> <<Opt("max", "1"), Opt("ssl", "true")>>]
        sm == [uri |-> "u1", options |-> <<Opt("ssl", "true"), Opt("max", "1")>>]
        m == [uri |-> "u1", options |-> <<>>]
    IN /\ pm.got[ms] # 0 /\ pm.got[ms] = pm.got[sm]
       /\ pm.got[m] # 0 /\ pm.got[m] # pm.got[ms]

\* C18: endPool(uri, config) ends the cached pool of exactly that pair and
\* removes it from the cache, leaves every other cached pool untouched, and
\* is a no-op when no pool is cached for the pair; when two endPool calls
\* for the same pair overlap, end() is invoked on the pool exactly once.
C18_EndPoolExactlyOnce ==
    [][/\ \A p \in PoolIds : pm'.ends[p].one <= 1
       /\ \A c \in Callers :
            (pm.calls[c].pc = "endPool" /\ pm'.calls[c].pc = "idle") =>
                /\ last'.ok
                /\ [key |-> pm.calls[c].key, pool |-> pm.calls[c].pool] \in pm.pools
                /\ pm'.pools = pm.pools \ {[key |-> pm.calls[c].key,
                                            pool |-> pm.calls[c].pool]}
       /\ (last'.op = "endPool" /\ pm'.calls = pm.calls) =>
                (pm'.pools = pm.pools /\ pm'.ends = pm.ends)
      ]_vars

\* C19: when endAllPools() completes, the cache is empty and every pool
\* that was removed from the cache has been ended, also a pool that
\* getPool added while endAllPools was waiting.
C19_EndAllPoolsEndsAll ==
    [][(last'.op = "endAllPools" /\ last'.ok) =>
          /\ pm'.pools = {}
          /\ \A e \in pm.pools : pm'.ends[e.pool].one + pm'.ends[e.pool].all > 0
      ]_vars

---------------------------------------------------------------------------
(* Bootstrap and connection of the SQL adapters (specification SpecBoot):  *)
(* the DDL sequence the constructor starts, the operations that await it,  *)
(* and disconnect().                                                       *)

\* the statements of the bootstrap, in the order the code sends them
MysqlBootstrap == <<"createTable", "addNamespace", "dropPrimaryKey",
                    "createUniqueIndex", "addExpires", "createExpiresIndex">>
PgBootstrap == <<"createTable", "migration", "dropOldPk", "createIndex">>
Bootstrap(m) == IF m = "mysql" THEN MysqlBootstrap ELSE PgBootstrap

\* the table as the current createTable statement of each adapter makes it
MysqlShape == {"table", "namespace", "unique", "expires", "expires_idx"}
PgShape == {"table", "namespace"}
OldShape == {"table", "pkey"}
\* the shapes the table may have before the instances bootstrap
Shapes(m) == {{}, OldShape, OldShape \cup {"namespace"},
              IF m = "mysql" THEN MysqlShape ELSE PgShape \cup {"unique"}}

\* what a statement adds to the table when it succeeds on a table without it
Adds(m, stmt) ==
    CASE stmt = "createTable" -> IF m = "mysql" THEN MysqlShape ELSE PgShape
      [] stmt \in {"addNamespace", "migration"} -> {"namespace"}
      [] stmt \in {"createUniqueIndex", "createIndex"} -> {"unique"}
      [] stmt = "addExpires" -> {"expires"}
      [] stmt = "createExpiresIndex" -> {"expires_idx"}
      [] OTHER -> {}

\* what the statement tests the existence of
Target(stmt) ==
    CASE stmt = "createTable" -> "table"
      [] stmt \in {"addNamespace", "migration"} -> "namespace"
      [] stmt \in {"dropPrimaryKey", "dropOldPk"} -> "pkey"
      [] stmt \in {"createUniqueIndex", "createIndex"} -> "unique"
      [] stmt = "addExpires" -> "expires"
      [] OTHER -> "expires_idx"

\* the error a statement raises when what it adds is there already (what it
\* drops is not there); "" when it has none (IF [NOT] EXISTS)
AlreadyApplied(m, stmt) ==
    CASE m = "mysql" /\ stmt \in {"addNamespace", "addExpires"} -> "1060"
      [] m = "mysql" /\ stmt = "dropPrimaryKey" -> "1091"
      [] m = "mysql" /\ stmt \in {"createUniqueIndex", "createExpiresIndex"} -> "1061"
      [] m = "postgres" /\ stmt \in {"createTable", "createIndex"} -> "23505"
      [] OTHER -> ""

\* CREATE TABLE / CREATE INDEX IF NOT EXISTS of PostgreSQL test the
\* existence and create in two steps, so that of two concurrent statements
\* one can fail with unique_violation
Racy(m, stmt) == m = "postgres" /\ stmt \in {"createTable", "createIndex"}

\* the outcomes of one statement on a table of the given shape: the shape it
\* leaves and the error it raises ("" for none, "other" for any error that
\* is not an already-applied one, which every statement can raise)
Ddl(m, stmt, shape) ==
    LET drops == stmt \in {"dropPrimaryKey", "dropOldPk"}
        applied == IF drops THEN Target(stmt) \notin shape ELSE Target(stmt) \in shape
        done == IF drops THEN shape \ {"pkey"} ELSE shape \cup Adds(m, stmt)
    IN {[shape |-> shape, err |-> "other"]} \cup
       (IF ~applied THEN {[shape |-> done, err |-> ""]}
        ELSE {[shape |-> shape, err |-> AlreadyApplied(m, stmt)]})

\* the errors the catch block around a statement swallows
Swallowed(m, stmt, err) ==
    IF m = "mysql"
    THEN stmt # "createTable" /\ err = AlreadyApplied(m, stmt)
    ELSE TRUE

\* whether the bootstrap goes on to the next statement after the error
GoesOn(m, err) == m = "mysql"

\* whether init() emits an "error" event for the error
Emits(m, err) == m = "postgres" /\ err # "23505"

Stmt(i) == Bootstrap(mode)[boot.inst[i].pc]

\* the instance after statement pc has completed without stopping the chain
Advance(r) ==
    [r EXCEPT !.pc = @ + 1, !.sub = "start",
              !.state = IF r.pc = Len(Bootstrap(mode)) THEN "ready" ELSE "booting"]

\* the existence test of a racy statement
BootCheck(i) ==
    LET r == boot.inst[i]
    IN /\ r.state = "booting" /\ Racy(mode, Stmt(i)) /\ r.sub = "start"
       /\ boot' = [boot EXCEPT !.inst[i] =
                     IF Target(Stmt(i)) \in boot.shape THEN Advance(r)
                     ELSE [r EXCEPT !.sub = "create"]]
       /\ last' = NoCall
       /\ UNCHANGED <<sched, it2, clock, pm, mig, mode, ns, store, nextId, shadow, pend, it>>

\* one statement of the bootstrap and the catch block around it
BootExec(i) ==
    LET r == boot.inst[i]
        stmt == Stmt(i)
    IN /\ r.state = "booting" /\ (Racy(mode, stmt) => r.sub = "create")
       /\ \E o \in Ddl(mode, stmt, boot.shape) :
            boot' = [boot EXCEPT
               !.shape = o.shape,
               !.inst[i] =
                  IF o.err = "" THEN Advance(r)
                  ELSE IF ~Swallowed(mode, stmt, o.err)
                       THEN [r EXCEPT !.pc = @ + 1, !.state = "failed", !.other = TRUE]
                  ELSE IF GoesOn(mode, o.err)
                       THEN [Advance(r) EXCEPT !.expected = TRUE]
                  ELSE [r EXCEPT !.pc = @ + 1, !.state = "ready",
                                 !.expected = (o.err # "other") \/ @,
                                 !.other = (o.err = "other") \/ @,
                                 !.emitted = Emits(mode, o.err) \/ @]]
       /\ last' = NoCall
       /\ UNCHANGED <<sched, it2, clock, pm, mig, mode, ns, store, nextId, shadow, pend, it>>

DataOps == {"get", "getMany", "set", "setMany", "has", "hasMany", "delete",
            "deleteMany", "clear", "iterator"}

\* whether the backend executes the data query of op on a table of the shape
DataQueryOk(m, op, shape) ==
    /\ m \in {"mysql", "postgres"} => {"table", "namespace"} \subseteq shape
    /\ (m = "mysql" /\ op \in {"set", "setMany"}) => "expires" \in shape
    /\ (m = "postgres" /\ op \in {"set", "setMany"}) => "unique" \in shape

\* variant of Connected that does not wait for the bootstrap
Connected_NoWait(i) == TRUE

\* "const query = await connected": the query function goes on once the
\* bootstrap promise has settled
Connected(i) == boot.inst[i].state # "booting"

\* how a call of op settles once its data query failed: the iterator of
\* KeyvPostgres catches the error, emits it and returns
Failure(m, op) ==
    IF m = "postgres" /\ op = "iterator" THEN [ok |-> TRUE, res |-> "<done>"]
    ELSE [ok |-> FALSE, res |-> UNDEFINED]

\* how the pending call of op by instance i settles
Settle(i, op) ==
    LET r == boot.inst[i]
    IN IF r.state = "failed" THEN [ok |-> FALSE, res |-> UNDEFINED]
       ELSE IF r.conn # 0 /\ PoolEnded(r.conn) THEN Failure(mode, op)
       ELSE IF ~DataQueryOk(mode, op, boot.shape) THEN Failure(mode, op)
       ELSE [ok |-> TRUE, res |-> "<result>"]

\* an operation is called while the bootstrap is running: it waits
OpIssue(i) ==
    LET r == boot.inst[i]
    IN /\ r.state = "booting" /\ r.issued < MaxOps
       /\ boot' = [boot EXCEPT !.inst[i].issued = @ + 1, !.inst[i].waiting = @ + 1]
       /\ last' = NoCall
       /\ UNCHANGED <<sched, it2, clock, pm, mig, mode, ns, store, nextId, shadow, pend, it>>

\* a waiting operation goes on past "await connected" and settles
OpResume(i, op) ==
    LET r == boot.inst[i]
    IN /\ r.waiting > 0 /\ Connected(i)
       /\ boot' = [boot EXCEPT !.inst[i].waiting = @ - 1,
                               !.inst[i].early = @ \/ r.state = "booting"]
       /\ last' = [op |-> op, inst |-> i, keys |-> <<>>,
                   ok |-> Settle(i, op).ok, res |-> Settle(i, op).res]
       /\ UNCHANGED <<sched, it2, clock, pm, mig, mode, ns, store, nextId, shadow, pend, it>>

\* an operation called after the bootstrap has settled
Op(i, op) ==
    LET r == boot.inst[i]
    IN /\ r.state # "booting" /\ r.waiting = 0 /\ r.issued < MaxOps
       /\ boot' = [boot EXCEPT !.inst[i].issued = @ + 1]
       /\ last' = [op |-> op, inst |-> i, keys |-> <<>>,
                   ok |-> Settle(i, op).ok, res |-> Settle(i, op).res]
       /\ UNCHANGED <<sched, it2, clock, pm, mig, mode, ns, store, nextId, shadow, pend, it>>

InstCaller(i) == IF i = "i1" THEN "c1" ELSE "c2"

\* KeyvPostgres.disconnect up to the await inside endPool
disconnectCall(i) ==
    /\ mode = "postgres"
    /\ boot.inst[i].state = "ready" /\ boot.inst[i].waiting = 0
    /\ ~boot.inst[i].closed
    /\ endPoolAwait(InstCaller(i), boot.inst[i].arg.uri, boot.inst[i].arg.options)
    /\ boot' = [boot EXCEPT !.inst[i].closed =
                   pm'.calls[InstCaller(i)].pc = "idle"]
    /\ UNCHANGED <<sched, it2, clock, mig, mode, ns, store, nextId, shadow, pend, it>>

\* KeyvPostgres.disconnect from that await on
disconnectResume(i) ==
    /\ mode = "postgres"
    /\ endPoolDelete(InstCaller(i))
    /\ boot' = [boot EXCEPT !.inst[i].closed = TRUE]
    /\ UNCHANGED <<sched, it2, clock, mig, mode, ns, store, nextId, shadow, pend, it>>

\* the state after the two instances were constructed: KeyvPostgres has
\* taken its pool (init runs up to its first await inside the constructor)
PmConnected ==
    [PmInit EXCEPT !.pools = {[key |-> CacheKeyOf[InstPoolArg], pool |-> 1]},
                   !.created = 1]

InitBoot ==
    /\ mode \in {"mysql", "postgres"}
    /\ ns = [i1 |-> UNDEFINED, i2 |-> "a"]
    /\ store = {}
    /\ nextId = 1
    /\ last = NoCall
    /\ shadow = [m \in NsNames |-> [k \in StoredKeys |-> UNDEFINED]]
    /\ pend = [i \in Inst |-> PendIdle]
    /\ it = ItIdle
    /\ it2 = ItIdle
    /\ sched = SchedInit
    /\ clock = 0
    /\ pm = IF mode = "postgres" THEN PmConnected ELSE PmInit
    /\ mig = MigIdle
    /\ \E shape \in Shapes(mode) :
          boot = [shape |-> shape,
                  inst |-> [i \in Inst |->
                      [InstInit EXCEPT !.conn = IF mode = "postgres" THEN 1 ELSE 0]]]

NextBoot ==
    \/ \E i \in Inst : BootCheck(i)
    \/ \E i \in Inst : BootExec(i)
    \/ \E i \in Inst : OpIssue(i)
    \/ \E i \in Inst, op \in DataOps : OpResume(i, op)
    \/ \E i \in Inst, op \in DataOps : Op(i, op)
    \/ \E i \in Inst : disconnectCall(i)
    \/ \E i \in Inst : disconnectResume(i)

SpecBoot == InitBoot /\ [][NextBoot]_vars

\* C14: no data query of an operation is sent before the instance's whole
\* bootstrap has finished, also when the operation is called right after
\* construction or while a DDL statement is running; the bootstrap runs
\* once per instance (it never goes back to an earlier statement and never
\* starts again once settled), however many operations are issued.
C14_QueriesWaitForBootstrap ==
    [][\A i \in Inst :
          /\ ~boot'.inst[i].early
          /\ boot'.inst[i].pc >= boot.inst[i].pc
          /\ boot.inst[i].state # "booting" =>
                (boot'.inst[i].pc = boot.inst[i].pc /\
                 boot'.inst[i].state = boot.inst[i].state)
      ]_vars

\* C14 witness: of two operations called while the bootstrap was running,
\* one has gone on after the last statement and settled, one still waits
C14_Witness ==
    \E i \in Inst :
        /\ boot.inst[i].state = "ready"
        /\ boot.inst[i].pc = Len(Bootstrap(mode)) + 1
        /\ boot.inst[i].issued = 2 /\ boot.inst[i].waiting = 1
        /\ last.inst = i /\ last.op = "get" /\ last.ok

\* the table in its full current shape
FullShape(m) == IF m = "mysql" THEN MysqlShape ELSE PgShape \cup {"unique"}

\* C15: when a bootstrap step fails with an expected already-applied error,
\* the error is swallowed and every later step still runs; so two instances
\* bootstrapping concurrently both finish without reporting an error and
\* the table ends in the full current shape, with the composite unique
\* index.
C15_AlreadyAppliedTolerated ==
    /\ \A i \in Inst :
          (boot.inst[i].state # "booting" /\ boot.inst[i].expected
              /\ ~boot.inst[i].other) =>
                /\ boot.inst[i].state = "ready"
                /\ ~boot.inst[i].emitted
                /\ boot.inst[i].pc = Len(Bootstrap(mode)) + 1
    /\ (\A i \in Inst : boot.inst[i].state # "booting" /\ ~boot.inst[i].other) =>
          (FullShape(mode) \subseteq boot.shape /\ "pkey" \notin boot.shape)

\* C16: if a bootstrap step fails with an error that is not an expected
\* already-applied one, no later step is executed, the DDL is not retried,
\* and every subsequent operation on that instance fails.
C16_FatalBootstrapError ==
    [][\A i \in Inst :
          boot.inst[i].other =>
             /\ boot'.inst[i].pc = boot.inst[i].pc
             /\ (last'.op \in DataOps /\ last'.inst = i) => ~last'.ok
      ]_vars

\* C13: after disconnect() has completed on an instance, every subsequent
\* operation on that instance (get, getMany, set, setMany, has, hasMany,
\* delete, deleteMany, clear and iteration) fails with a rejection.
C13_FailsAfterDisconnect ==
    [][(last'.op \in DataOps /\ boot.inst[last'.inst].closed) => ~last'.ok]_vars

---------------------------------------------------------------------------
(* The one-time migration scripts (scripts/migrate-v6.ts of the Postgres   *)
(* and of the MySQL adapter).  A run sends its statements one after the    *)
(* other on one connection; every statement can fail (lost connection,     *)
(* lock timeout, ...), which the model draws as an outcome.                *)

RECURSIVE ColonFrom(_, _)
\* the position of the first ':' of s at or after position n, 0 for none
ColonFrom(s, n) ==
    IF n > Len(s) THEN 0
    ELSE IF SubSeq(s, n, n) = ":" THEN n
    ELSE ColonFrom(s, n + 1)

FirstColon_Last(s) ==
    LET at == {n \in 1..Len(s) : SubSeq(s, n, n) = ":"}
    IN IF at = {} THEN 0 ELSE CHOOSE n \in at : \A j \in at : j <= n
FirstColon(s) == ColonFrom(s, 1)

\* POSITION(':' IN key) of PostgreSQL and LOCATE(':', id) of MySQL
POSITION(s) == FirstColon(s)
LOCATE(s) == FirstColon(s)
\* SUBSTR(key, from) / SUBSTRING(id, from): the text from position from on
SUBSTR(s, from) == SubSeq(s, from, Len(s))
SUBSTRING(s, from) == SubSeq(s, from, Len(s))
\* SPLIT_PART(key, ':', 1) / SUBSTRING_INDEX(id, ':', 1): the text before the
\* first delimiter, the whole text when there is none
SPLIT_PART(s) == IF FirstColon(s) = 0 THEN s ELSE SubSeq(s, 1, FirstColon(s) - 1)
SUBSTRING_INDEX(s) == IF FirstColon(s) = 0 THEN s ELSE SubSeq(s, 1, FirstColon(s) - 1)
\* key LIKE '%:%'
LikeColon(s) == ColonFrom(s, 1) # 0

\* the value of the namespace column of a row that was never migrated
Sentinel(m) == IF m = "mysql" THEN "" ELSE NULL

\* WHERE namespace IS NULL AND key LIKE '%:%' (Postgres),
\* WHERE namespace = '' AND id LIKE '%:%' (MySQL)
MigWhere(m, r) == r.ns = Sentinel(m) /\ LikeColon(r.key)

\* the preview SELECT: old_key, new_namespace, new_key of each matching row
MigPreviewRows(m, rows) ==
    {[old_key |-> r.key,
      new_namespace |-> IF m = "mysql" THEN SUBSTRING_INDEX(r.key) ELSE SPLIT_PART(r.key),
      new_key |-> IF m = "mysql" THEN SUBSTRING(r.key, LOCATE(r.key) + 1)
                  ELSE SUBSTR(r.key, POSITION(r.key) + 1)] :
        r \in {q \in rows : MigWhere(m, q)}}

\* Postgres: UPDATE t SET key = m.new_key, namespace = m.new_namespace
\*           FROM migrated m WHERE t.key = m.old_key AND t.namespace IS NULL
PgMigrateQuery(rows) ==
    LET migrated == MigPreviewRows("postgres", rows)
        Joined(t) == {m \in migrated : t.key = m.old_key /\ t.ns = NULL}
    IN {IF Joined(t) = {} THEN t
        ELSE LET m == CHOOSE m \in Joined(t) : TRUE
             IN [t EXCEPT !.key = m.new_key, !.ns = m.new_namespace] : t \in rows}

\* MySQL: UPDATE SET namespace = SUBSTRING_INDEX(id, ':', 1),
\*                   id = SUBSTRING(id, LOCATE(':', id) + 1)
\*        WHERE namespace = '' AND id LIKE '%:%'
\* (the assignments run left to right; both read the id the row had)
MysqlMigrateQuery(rows) ==
    {IF MigWhere("mysql", r)
     THEN LET named == [r EXCEPT !.ns = SUBSTRING_INDEX(r.key)]
          IN [named EXCEPT !.key = SUBSTRING(named.key, LOCATE(named.key) + 1)]
     ELSE r : r \in rows}

MigrateQuery(m, rows) ==
    IF m = "mysql" THEN MysqlMigrateQuery(rows) ELSE PgMigrateQuery(rows)

\* two rows the table's primary key (on the key alone) or its composite
\* unique index (on the key and the namespace) cannot hold together
SameIndexEntry(shape, r, q) ==
    \/ "pkey" \in shape /\ r.key = q.key
    \/ "unique" \in shape /\ r.key = q.key /\ Coalesce(r.ns) = Coalesce(q.ns)

Unique(shape, rows) ==
    \A r, q \in rows : r.id # q.id => ~SameIndexEntry(shape, r, q)

\* MySQL: WHERE expires IS NULL AND JSON_VALID(value)
\*        AND value->'$.expires' IS NOT NULL
ExpiresWhere(r) ==
    LET data == JSONParse(r.value)
    IN /\ r.expires = NoExpires
       /\ data.ok
       /\ data.truthy /\ data.type = "object" /\ data.expiresType # "undefined"

\* CAST(value->'$.expires' AS UNSIGNED); the one string-valued expires of the
\* model is "1"
CastExpires(value) ==
    IF JSONParse(value).expiresType = "number" THEN JSONParse(value).expires ELSE {1}

\* MySQL: UPDATE SET expires = CAST(value->'$.expires' AS UNSIGNED) WHERE ...
ExpiresUpdate(rows) ==
    {IF ExpiresWhere(r) THEN [r EXCEPT !.expires = CastExpires(r.value)] ELSE r : r \in rows}

\* the schema statements a run sends before the data pass
MysqlMigSchema == <<"addNamespace", "dropPrimaryKey", "createUniqueIndex",
                    "addExpires", "createExpiresIndex">>
PgMigSchema == <<"addNamespace", "addExpires">>
MigSchema(m) == IF m = "mysql" THEN MysqlMigSchema ELSE PgMigSchema

RECURSIVE MigSchemaRun(_, _, _)
\* the outcomes of sending the schema statements from the n-th on: the shape
\* the table is left with and whether a statement failed with an error the
\* script does not swallow
MigSchemaRun(m, n, shape) ==
    IF n > Len(MigSchema(m)) THEN {[shape |-> shape, failed |-> FALSE]}
    ELSE UNION {IF o.err \in {"", AlreadyApplied(m, MigSchema(m)[n])} \ {"other"}
                THEN MigSchemaRun(m, n + 1, o.shape)
                ELSE {[shape |-> o.shape, failed |-> TRUE]} :
                    o \in Ddl(m, MigSchema(m)[n], shape)}

\* process.exit(1) in the outer catch / the normal end of the script
MigExit(code) == [mig EXCEPT !.pc = "done", !.exit = code]

\* the script is started: parseArgs, createPool, getConnection
MigStart(dryRun) ==
    /\ mig.pc \in {"idle", "done"}
    /\ mig.runs < MaxRuns
    /\ mig' = [pc |-> "schema", dryRun |-> dryRun, before |-> store, exit |-> 0,
               runs |-> mig.runs + 1, passed |-> FALSE,
               prevOk |-> mig.pc = "done" /\ mig.exit = 0 /\ ~mig.dryRun]
    /\ UNCHANGED <<sched, it2, clock, pm, boot, mode, ns, store, nextId, last, shadow, pend, it>>

\* the schema statements, outside any transaction
MigSchemaStep ==
    /\ mig.pc = "schema"
    /\ \E o \in MigSchemaRun(mode, 1, boot.shape) :
          /\ boot' = [boot EXCEPT !.shape = o.shape]
          /\ mig' = IF o.failed THEN MigExit(1) ELSE [mig EXCEPT !.pc = "preview"]
    /\ UNCHANGED <<sched, it2, clock, pm, mode, ns, store, nextId, last, shadow, pend, it>>

\* variant of MigPreview without the early return of a dry run
MigPreview_NoDryRun ==
    /\ mig.pc = "preview"
    /\ \E failed \in BOOLEAN :
          mig' = IF failed THEN MigExit(1)
                 ELSE IF MigPreviewRows(mode, store) = {} THEN MigExit(0)
                 ELSE [mig EXCEPT !.pc = "update"]
    /\ UNCHANGED <<sched, it2, clock, pm, boot, mode, ns, store, nextId, last, shadow, pend, it>>

\* (BEGIN and) the preview SELECT, then the two early returns
MigPreview ==
    /\ mig.pc = "preview"
    /\ \E failed \in BOOLEAN :
          mig' = IF failed THEN MigExit(1)
                 ELSE IF MigPreviewRows(mode, store) = {} THEN MigExit(0)
                 ELSE IF mig.dryRun THEN MigExit(0)
                 ELSE [mig EXCEPT !.pc = "update"]
    /\ UNCHANGED <<sched, it2, clock, pm, boot, mode, ns, store, nextId, last, shadow, pend, it>>

\* the UPDATE and the COMMIT; a row the indexes of the table reject, like
\* any other error, fails the statement and the catch block rolls back
MigUpdate ==
    /\ mig.pc = "update"
    /\ \/ /\ Unique(boot.shape, MigrateQuery(mode, store))
          /\ store' = MigrateQuery(mode, store)
          /\ mig' = IF mode = "mysql" THEN [mig EXCEPT !.pc = "expires", !.passed = TRUE]
                    ELSE [MigExit(0) EXCEPT !.passed = TRUE]
       \/ /\ store' = store
          /\ mig' = MigExit(1)
    /\ UNCHANGED <<sched, it2, clock, pm, boot, mode, ns, nextId, last, shadow, pend, it>>

\* MySQL: the COUNT of the rows whose expires is to be populated, then the
\* UPDATE that populates them
MigExpires ==
    /\ mig.pc = "expires"
    /\ \/ /\ store' = IF \E r \in store : ExpiresWhere(r) THEN ExpiresUpdate(store)
                      ELSE store
          /\ mig' = MigExit(0)
       \/ /\ store' = store
          /\ mig' = MigExit(1)
    /\ UNCHANGED <<sched, it2, clock, pm, boot, mode, ns, nextId, last, shadow, pend, it>>

\* The tables a run starts on: rows in the old format (key "namespace:key",
\* namespace at its sentinel) next to rows that have a namespace already,
\* written before the expires column existed.
MigKeys == <<"k", "a:k", "b:k", "a:b:c", ":a:k">>
MigNamespaces(m) == <<Sentinel(m), "a">>
MigValues == <<"v1", JsonWithExpires>>
MigRows(m) ==
    {Row((k - 1) * 4 + (n - 1) * 2 + v, MigKeys[k], MigNamespaces(m)[n],
         MigValues[v], NoExpires) :
        k \in 1..Len(MigKeys), n \in 1..2, v \in 1..2}
MigTables(m) == {{}} \cup {Range(f) : f \in [1..MaxRows -> MigRows(m)]}
\* the shapes of a table of the previous version, and of one an adapter of
\* the current version has bootstrapped
MigShapes(m) == {OldShape, OldShape \cup {"namespace"},
                 IF m = "mysql" THEN MysqlShape ELSE PgShape \cup {"unique"}}

InitMig ==
    /\ mode \in {"mysql", "postgres"}
    /\ ns = [i1 |-> UNDEFINED, i2 |-> "a"]
    /\ nextId = 1
    /\ last = NoCall
    /\ shadow = [m \in NsNames |-> [k \in StoredKeys |-> UNDEFINED]]
    /\ pend = [i \in Inst |-> PendIdle]
    /\ it = ItIdle
    /\ it2 = ItIdle
    /\ sched = SchedInit
    /\ clock = 0
    /\ pm = PmInit
    /\ mig = MigIdle
    /\ \E shape \in MigShapes(mode) :
          boot = [shape |-> shape, inst |-> [i \in Inst |-> InstInit]]
    /\ store \in MigTables(mode)
    /\ Unique(boot.shape, store)
    /\ "namespace" \notin boot.shape => \A r \in store : r.ns = Sentinel(mode)

NextMig ==
    \/ \E dryRun \in BOOLEAN : MigStart(dryRun)
    \/ MigSchemaStep
    \/ MigPreview
    \/ MigUpdate
    \/ MigExpires

SpecMig == InitMig /\ [][NextMig]_vars

\* the text of s before / after its first ':'
BeforeColon(s) ==
    LET n == CHOOSE n \in 1..Len(s) :
                 SubSeq(s, n, n) = ":" /\ \A j \in 1..(n - 1) : SubSeq(s, j, j) # ":"
    IN SubSeq(s, 1, n - 1)
AfterColon(s) ==
    LET n == CHOOSE n \in 1..Len(s) :
                 SubSeq(s, n, n) = ":" /\ \A j \in 1..(n - 1) : SubSeq(s, j, j) # ":"
    IN SubSeq(s, n + 1, Len(s))
HasColon(s) == \E n \in 1..Len(s) : SubSeq(s, n, n) = ":"
KeyNamespaceValue(r) == [id |-> r.id, key |-> r.key, ns |-> r.ns, value |-> r.value]

C21_FailedRunChangesNothing ==
    (mig.pc = "done" /\ mig.exit # 0) => store = mig.before

\* C22: no row is migrated twice: whatever the table held, a run of the
\* migration that follows a successful run (not a dry run) changes no row.
C22_SecondRunChangesNothing ==
    mig.prevOk => store = mig.before

\* C23: a migration run with the dry-run flag changes no row's key,
\* namespace, value or expires, whatever the table holds, while the schema
\* changes it applies before the data pass (the added columns and indexes)
\* persist.
C23_DryRunChangesNoRow ==
    mig.dryRun =>
        /\ store = mig.before
        /\ (mig.pc = "done" /\ mig.exit = 0) =>
              /\ {"namespace", "expires"} \subseteq boot.shape
              /\ mode = "mysql" => {"unique", "expires_idx"} \subseteq boot.shape

C23_Witness ==
    /\ mig.dryRun /\ mig.pc = "done" /\ mig.exit = 0
    /\ mode = "postgres" /\ "expires" \in boot.shape
    /\ \E r \in store : MigWhere(mode, r) /\ r \in mig.before

\* the rows a verbatim lookup of key in the namespace of instance i finds
Verbatim(i, key) == {r \in store : r.key = key /\ Coalesce(r.ns) = NsNorm(i)}

\* C24: key-prefix stripping removes the leading "<namespace>:" exactly once
\* when the adapter has a non-empty namespace and the key starts with that
\* prefix, and returns every other key unchanged (every key when no
\* namespace is set, and keys prefixed with another namespace); hence on an
\* adapter with namespace "a", get/has/delete of "a:k" and of "k" address
\* the same entry, and a key with the prefix of another namespace is looked
\* up verbatim.
C24_PrefixStripping ==
    /\ \A key \in {"k", "a:k", "b:k", "a:a:k", "ak", ":k"} :
          /\ removeKeyPrefix(UNDEFINED, key) = key
          /\ removeKeyPrefix("", key) = key
          /\ removeKeyPrefix("a", key) =
                (CASE key = "a:k" -> "k" [] key = "a:a:k" -> "a:k" [] OTHER -> key)
    /\ \A i \in Inst :
          /\ ns[i] = "a" =>
                /\ GetOut(i, "a:k") = GetOut(i, "k")
                /\ HasOut(i, "a:k") = HasOut(i, "k")
                /\ DeleteOut(i, "a:k") = DeleteOut(i, "k")
          /\ \A key \in {"b:k"} \cup (IF ns[i] = "a" THEN {} ELSE {"a:k"}) :
                /\ \A o \in HasOut(i, key) : o.res = (Verbatim(i, key) # {})
                /\ \A o \in GetOut(i, key) : (o.res # UNDEFINED) = (Verbatim(i, key) # {})
                /\ \A o \in DeleteOut(i, key) :
                      o.res = (Verbatim(i, key) # {}) /\ store \ o.store \subseteq Verbatim(i, key)

C24_Witness ==
    /\ last.op = "get" /\ last.keys = <<"a:k">> /\ ns[last.inst] = "a"
    /\ last.ok /\ last.res # UNDEFINED
    /\ \E r \in store : r.key = "k" /\ r.ns = "a"
    /\ \E r \in store : r.key = "a:k" /\ Coalesce(r.ns) = ""

---------------------------------------------------------------------------
(* The iterators of the three adapters next to awaited set and delete      *)
(* calls (specification SpecIterAll).                                      *)

\* the orders in which a cursor can return the documents of a find()
Orders(S) ==
    {s \in [1..Cardinality(S) -> S] : \A a, b \in 1..Cardinality(S) : a # b => s[a] # s[b]}

\* KeyvMongo.iterator: store.find({ namespace: { $eq: namespaceValue } })
\* (metadata.namespace and the downloaded content for GridFS files), every
\* document mapped to [prefixedKey, value]
KeyvMongo_iterator ==
    /\ it.pc = "fetch"
    /\ mode \in {"mongo", "gridfs"}
    /\ \E docs \in Orders(IterNamespaceRows(store, mode, it.arg)) :
          it' = [it EXCEPT
                   !.fetches = @ + 1,
                   !.yielded = @ \o [n \in 1..Len(docs) |-> YieldEntry(it.arg, docs[n])],
                   !.pc = "done"]
    /\ UNCHANGED <<sched, it2, env, mode, ns, store, nextId, last, shadow, pend>>

NextIterAll ==
    \/ \E i \in Inst, arg \in IterArgs, l \in IterationLimitFields : IterateStart(i, arg, l)
    \/ IterateFetch
    \/ KeyvMongo_iterator
    \/ \E i \in Inst, key \in RawKeys, value \in Values : Set(i, key, value, NoExpires, 0)
    \/ \E i \in Inst, key \in RawKeys : Delete(i, key)
    \/ Resume

SpecIterAll == Init /\ [][NextIterAll]_vars

\* C25: iterator(ns) yields only entries whose stored namespace equals ns
\* (the default namespace when ns is omitted), and each yielded key is the
\* stored key with "ns:" re-attached when ns is non-empty: a key passed to
\* set as "ns:k" on an adapter with namespace ns is yielded back as "ns:k",
\* and keys of other namespaces are never yielded.
C25_IteratorNamespace ==
    [][\A n \in (Len(it.yielded) + 1)..Len(it'.yielded) :
          \E r \in store :
             /\ Coalesce(r.ns) = (IF it.arg = UNDEFINED THEN "" ELSE it.arg)
             /\ it'.yielded[n] =
                   <<IF it.arg \in {UNDEFINED, ""} THEN r.key ELSE it.arg \o ":" \o r.key,
                     r.value>>
      ]_vars

C25_Witness ==
    /\ it.pc = "done" /\ it.arg = "a"
    /\ \E v \in Values : it.yielded = <<(<<"a:k", v>>)>>
    /\ \E r \in store : r.key = "k" /\ r.ns = "a"
    /\ \E r \in store : r.key = "a:k" /\ Coalesce(r.ns) = ""

---------------------------------------------------------------------------
(* The queries a batch call sends to the backend *)

\* hasMany: KeyvMysql returns [] before building its SELECT when keys is
\* empty; KeyvPostgres and KeyvMongo send their SELECT / find() in any case
HasManyQueries(m, keys) ==
    IF m = "mysql" THEN (IF Len(keys) = 0 THEN 0 ELSE 1) ELSE 1

\* setMany: KeyvMysql returns before building its INSERT when entries is
\* empty; KeyvPostgres sends its INSERT ... SELECT FROM UNNEST and KeyvMongo
\* its bulkWrite in any case; in GridFS mode every entry is one set()
SetManyQueries(m, entries) ==
    CASE m = "mysql" -> IF Len(entries) = 0 THEN 0 ELSE 1
      [] m = "gridfs" -> Len(entries)
      [] OTHER -> 1

\* C26: batch operations given an empty array do nothing: in every adapter
\* hasMany([]) returns [] and setMany([]) completes successfully, and
\* neither sends any query to the backend nor changes the store.
C26_EmptyBatchNoOp ==
    \A i \in Inst :
        /\ HasManyOut(i, <<>>) = {Outcome(store, <<>>)}
        /\ SetManyOut(i, <<>>, 0) = {Outcome(store, UNDEFINED)}
        /\ HasManyQueries(mode, <<>>) = 0
        /\ SetManyQueries(mode, <<>>) = 0

\* C27: in the Postgres adapter, set and setMany store the expires timestamp
\* extracted from the value in the expires column (null when the value
\* carries none), and clearExpired() removes the entries whose expires is in
\* the past while keeping those whose expires is in the future or absent.
C27_PostgresExpires ==
    mode = "postgres" =>
        /\ \A r \in store : r.expires = ExpiresFieldOf(r.value)
        /\ \A i \in Inst, now \in Clock : \A o \in ClearExpiredOut(i, now) :
              /\ o.ok
              /\ o.store = {r \in store : \A e \in ExpiresFieldOf(r.value) : e >= now}

\* C28: when iterationLimit is 0 or unset, the iterator uses a page size of
\* 10 (it never issues a page query with limit 0) and still yields every
\* entry of the namespace.
C28_DefaultPageSize ==
    /\ IterLimit(0) = 10 /\ IterLimit(10) = 10
    /\ it.pc # "idle" => it.limit >= 1
    /\ (it.pc = "done" /\ it.quiet /\ it.limit = 10) =>
          {it.yielded[n] : n \in 1..Len(it.yielded)} =
              {YieldEntry(it.arg, r) : r \in IterNamespaceRows(store, mode, it.arg)}

C28_Witness ==
    /\ it.pc = "done" /\ it.quiet /\ it.limit = 10
    /\ Len(it.yielded) = 3 /\ it.fetches = 1

---------------------------------------------------------------------------
(* KeyvMongo with expiring entries (specification SpecTtl): set calls with *)
(* and without a ttl and clearExpired calls, awaited one after the other,  *)
(* with the clock advancing between them.                                  *)

\* the ttl arguments of set
SetTtls == {NoExpires, {0}, {1}}

InitTtl == Init /\ mode \in {"mongo", "gridfs"}

NextTtl ==
    \/ Tick
    \/ \E i \in Inst, key \in {"k"}, value \in {"v1"}, ttl \in SetTtls :
          Set(i, key, value, ttl, clock)
    \/ \E i \in Inst : ClearExpired(i, clock)
    \/ Resume

SpecTtl == InitTtl /\ [][NextTtl]_vars

\* C29: Mongo clearExpired() in standard (non-GridFS) mode returns false and
\* deletes nothing; in GridFS mode it returns true and deletes exactly the
\* files of the adapter's namespace whose expiresAt is at or before the call
\* time, leaving files whose expiresAt is null, later, or that belong to
\* another namespace.
C29_MongoClearExpired ==
    [][(last'.op = "clearExpired" /\ last.op = "none") =>
          IF mode = "gridfs"
          THEN /\ last'.ok /\ last'.res = TRUE
               /\ store' = {r \in store :
                               ~(/\ Coalesce(r.ns) = NsNorm(last'.inst)
                                 /\ r.expires # NoExpires
                                 /\ \A e \in r.expires : e <= clock)}
          ELSE /\ last'.ok /\ last'.res = FALSE
               /\ store' = store
      ]_<<last.op, store>>

C29_Witness ==
    /\ mode = "gridfs" /\ last.op = "clearExpired" /\ last.res = TRUE
    /\ nextId = 3 /\ Cardinality(store) = 1
    /\ \E r \in store : r.expires # NoExpires /\ Coalesce(r.ns) = NsNorm(last.inst)

---------------------------------------------------------------------------
(* The page queries of one iteration of the SQL iterators.                 *)

\* floor(n / L) + 1 for the n rows of the iterated namespace and the page size L
PageFetches == (Cardinality(IterNamespaceRows(store, mode, it.arg)) \div it.limit) + 1

\* C30: with n entries in the iterated namespace, page size L and no
\* concurrent writes, one iteration performs exactly floor(n / L) + 1 page
\* fetches and then terminates (it is over exactly when that many page
\* queries have been sent, and sends no more than that): a non-empty page
\* shorter than L ends the iteration without a further fetch, an empty page
\* ends it yielding nothing, and the cursor strictly increases from one page
\* to the next.
C30_PageFetches ==
    /\ []((it.pc # "idle" /\ it.quiet) =>
             /\ it.fetches <= PageFetches
             /\ it.pc = "done" <=> it.fetches = PageFetches)
    /\ [][it'.fetches = it.fetches + 1 =>
             /\ Len(it'.yielded) - Len(it.yielded) < it.limit => it'.pc = "done"
             /\ Len(it'.yielded) - Len(it.yielded) = it.limit => it'.pc = "fetch"
             /\ (it.lastKey # NULL /\ it'.lastKey # it.lastKey) =>
                   StrLess(it.lastKey, it'.lastKey)
             /\ Len(it'.yielded) = Len(it.yielded) => it'.lastKey = it.lastKey
         ]_vars

C30_Witness ==
    /\ it.pc = "done" /\ it.quiet
    /\ it.limit = 2 /\ it.fetches = 2
    /\ Len(it.yielded) = 2

---------------------------------------------------------------------------
(* Two calls of iterator() on the same adapter, each with its own          *)
(* generator frame, over a table written before the first of them starts.  *)

\* the second call of iterator(): a new generator frame
IterateStartOther(i, arg, iterationLimit) ==
    /\ it.pc # "idle"
    /\ it2.pc = "idle"
    /\ i = it.inst
    /\ it2' = IterFrame(i, arg, iterationLimit)
    /\ UNCHANGED <<sched, it, env, mode, ns, store, nextId, last, shadow, pend>>

\* variant of IterateFetchOther with the cursor kept on the adapter
IterateFetchOther_SharedCursor ==
    /\ it2.pc = "fetch"
    /\ it2' = IterTurn(it2)
    /\ it' = [it EXCEPT !.lastKey = it2'.lastKey]
    /\ UNCHANGED <<sched, env, mode, ns, store, nextId, last, shadow, pend>>

\* one turn of the while loop of the second call
IterateFetchOther ==
    /\ it2.pc = "fetch"
    /\ it2' = IterTurn(it2)
    /\ UNCHANGED <<sched, it, env, mode, ns, store, nextId, last, shadow, pend>>

NextIterTwo ==
    \/ \E i \in Inst, arg \in IterArgs, l \in IterationLimitFields : IterateStart(i, arg, l)
    \/ IterateFetch
    \/ \E i \in Inst, arg \in IterArgs, l \in IterationLimitFields :
          IterateStartOther(i, arg, l)
    \/ IterateFetchOther
    \/ \E i \in Inst, key \in IterKeys, value \in IterValues :
          it.pc = "idle" /\ IterSet(i, key, value)
    \/ \E i \in Inst, key \in IterKeys :
          it.pc = "idle" /\ IterDelete(i, key)

SpecIterTwo == InitIter /\ [][NextIterTwo]_vars

\* everything a complete iteration of the frame's namespace yields, in order
AllEntries(f) ==
    LET rows == RowsSeq(IterNamespaceRows(store, mode, f.arg))
    IN [n \in 1..Len(rows) |-> YieldEntry(f.arg, rows[n])]

\* C31: each call of iterator() starts from the first page with no cursor:
\* two iterations on the same adapter instance, run one after the other or
\* interleaved step by step, each yield the complete set of entries, and
\* advancing one never changes what the other yields.
C31_IterationsIndependent ==
    /\ [](/\ it.pc = "done" => it.yielded = AllEntries(it)
          /\ it2.pc = "done" => it2.yielded = AllEntries(it2)
          /\ it.fetches = 0 => it.lastKey = NULL
          /\ it2.fetches = 0 => it2.lastKey = NULL)
    /\ [][/\ it2' # it2 => it' = it
          /\ (it' # it /\ it.pc # "idle") => (it2' = it2 /\ it' = IterTurn(it))
         ]_vars

C31_Witness ==
    /\ it.pc = "done" /\ it2.pc = "done"
    /\ it.arg = it2.arg
    /\ it.limit = 1 /\ it2.limit = 1
    /\ it.fetches = 3 /\ it2.fetches = 3
    /\ Len(it.yielded) = 2 /\ it.yielded = it2.yielded

---------------------------------------------------------------------------
(* setMany against the same entries written by set, one call per entry.    *)

\* the stores set(e.key, e.value) by instance i can leave, starting from st
SetOn(st, i, e, fid) ==
    {o.store : o \in
        CASE mode = "mysql" -> KeyvMysql_set(st, ns[i], e.key, e.value)
          [] mode = "postgres" -> KeyvPostgres_set(st, ns[i], e.key, e.value)
          [] OTHER -> KeyvMongo_set(st, IsGridFS, ns[i], e.key, e.value, e.ttl, clock, fid)}

RECURSIVE SetEach(_, _, _, _)
\* the stores the calls set(entries[1]), set(entries[2]), ... can leave
SetEach(sts, i, entries, fid) ==
    IF entries = <<>> THEN sts
    ELSE SetEach(UNION {SetOn(st, i, Head(entries), fid) : st \in sts},
                 i, Tail(entries), fid + 1)

\* the value of the last entry of the list written under the key of entries[m]
LastOccurrence(i, entries, m) ==
    LET same == {l \in 1..Len(entries) :
                    removeKeyPrefix(ns[i], entries[l].key) =
                    removeKeyPrefix(ns[i], entries[m].key)}
    IN entries[CHOOSE l \in same : \A x \in same : x <= l].value

\* C32: setMany(entries) leaves the store in the same state as calling
\* set(key, value) for each entry in list order: entries already present are
\* overwritten, a key repeated within the list ends with the value of its
\* last occurrence, and every entry is written under the adapter's namespace
\* with its key prefix stripped.
C32_SetManyIsSetEach ==
    \A i \in Inst : \A entries \in SeqsUpTo(Entries, MaxLen) :
        /\ {o.store : o \in SetManyOut(i, entries, clock)} =
              SetEach({store}, i, entries, nextId)
        /\ \A o \in SetManyOut(i, entries, clock) :
              /\ o.ok
              /\ \A m \in 1..Len(entries) :
                    \E r \in o.store :
                        /\ r.key = removeKeyPrefix(ns[i], entries[m].key)
                        /\ Coalesce(r.ns) = NsNorm(i)
                        /\ r.value = LastOccurrence(i, entries, m)

---------------------------------------------------------------------------
(* KeyvPostgres instances on one URI and configuration, with an instance   *)
(* constructed after a disconnect (the new object takes the place of the   *)
(* disconnected one).                                                      *)

\* new KeyvPostgres(...) with the default options, after the adapter i has
\* disconnected: the constructor runs init() up to its first await, so
\* connect() has called pool(this._uri, { ...this._poolConfig, ssl })
Construct(i) ==
    LET key == CacheKeyOf[InstPoolArg]
        existingPool == PoolsGet(key)
        conn == IF existingPool = 0 THEN pm.created + 1 ELSE existingPool
    IN /\ mode = "postgres"
       /\ boot.inst[i].closed
       /\ conn <= MaxPools
       /\ pm' = [pm EXCEPT
                   !.created = IF existingPool = 0 THEN conn ELSE @,
                   !.pools = IF existingPool = 0
                             THEN @ \cup {[key |-> key, pool |-> conn]} ELSE @]
       /\ boot' = [boot EXCEPT !.inst[i] = [InstInit EXCEPT !.conn = conn]]
       /\ last' = [op |-> "construct", inst |-> i, keys |-> <<>>, ok |-> TRUE,
                   res |-> UNDEFINED]
       /\ UNCHANGED <<sched, it2, clock, mig, mode, ns, store, nextId, shadow, pend, it>>

\* the two instances were constructed against a table in its current shape
InitShare == InitBoot /\ mode = "postgres" /\ boot.shape = PgShape \cup {"unique"}

\* one operation of each kind Settle and DataQueryOk tell apart
ShareOps == {"get", "set", "iterator"}

NextShare ==
    \/ \E i \in Inst : BootCheck(i)
    \/ \E i \in Inst : BootExec(i)
    \/ \E i \in Inst : OpIssue(i)
    \/ \E i \in Inst, op \in ShareOps : OpResume(i, op)
    \/ \E i \in Inst, op \in ShareOps : Op(i, op)
    \/ \E i \in Inst : disconnectCall(i)
    \/ \E i \in Inst : disconnectResume(i)
    \/ \E i \in Inst : Construct(i)

SpecShare == InitShare /\ [][NextShare]_vars

\* another instance, whose disconnect() has returned, holds the pool of instance i
Disconnected(i) ==
    \E j \in Inst \ {i} : boot.inst[j].closed /\ boot.inst[j].conn = boot.inst[i].conn

\* C33: two Postgres adapter instances constructed with the same URI and
\* configuration use the same pool, so disconnect() on one makes every
\* subsequent operation on the other fail as well; an instance constructed
\* afterwards (once the disconnect() calls have returned) with that URI and
\* configuration gets a newly created pool and its operations succeed.
C33_SharedPool ==
    [][/\ (last'.op \in DataOps /\ Disconnected(last'.inst)) => ~last'.ok
       /\ \A i \in Inst :
             (/\ last'.op = "construct" /\ last'.inst = i
              /\ \A c \in Callers : pm.calls[c].pc = "idle") =>
                /\ boot'.inst[i].conn # boot.inst[i].conn
                /\ pm'.ends[boot'.inst[i].conn] = [one |-> 0, all |-> 0]
       /\ (/\ last'.op \in DataOps
           /\ ~Disconnected(last'.inst)
           /\ pm.ends[boot.inst[last'.inst].conn] = [one |-> 0, all |-> 0]
           /\ boot.inst[last'.inst].state = "ready"
           /\ DataQueryOk(mode, last'.op, boot.shape)) => last'.ok
      ]_<<last.op, boot, pm>>

---------------------------------------------------------------------------
(* The bootstrap of each adapter when the connection or a setup statement  *)
(* fails, and the operations that await it.                                *)

\* what initConnection awaits, in order
MongoBootstrap(g) ==
    IF g THEN <<"connect", "createIndex", "createIndex", "createIndex",
                "createIndex", "createIndex">>
    ELSE <<"connect", "dropIndex", "createIndex", "createIndex">>

\* One await of the executor of initConnection.  It fulfils the promise
\* after its last await.  An error of dropIndex is caught and ignored; any
\* other error reaches the outer catch, which emits "error" and neither
\* resolves nor rejects the promise: the executor is over (pc past the
\* last await) and the promise stays pending.
KeyvMongo_initConnection(i) ==
    LET r == boot.inst[i]
        steps == MongoBootstrap(IsGridFS)
    IN /\ mode \in {"mongo", "gridfs"}
       /\ r.state = "booting" /\ r.pc <= Len(steps)
       /\ \E failed \in BOOLEAN :
            boot' = [boot EXCEPT !.inst[i] =
               IF ~failed
               THEN [r EXCEPT !.pc = @ + 1,
                              !.state = IF r.pc = Len(steps) THEN "ready" ELSE @]
               ELSE IF steps[r.pc] = "dropIndex"
               THEN [r EXCEPT !.pc = @ + 1, !.expected = TRUE]
               ELSE [r EXCEPT !.pc = Len(steps) + 1, !.other = TRUE,
                              !.emitted = TRUE]]
       /\ last' = NoCall
       /\ UNCHANGED <<sched, it2, clock, pm, mig, mode, ns, store, nextId, shadow, pend, it>>

\* the bootstrap of instance i will take no further step
BootOver(i) ==
    \/ boot.inst[i].state # "booting"
    \/ /\ mode \in {"mongo", "gridfs"}
       /\ boot.inst[i].pc > Len(MongoBootstrap(IsGridFS))

InitConn ==
    \/ InitBoot
    \/ /\ mode \in {"mongo", "gridfs"}
       /\ ns = [i1 |-> UNDEFINED, i2 |-> "a"]
       /\ store = {}
       /\ nextId = 1
       /\ last = NoCall
       /\ shadow = [m \in NsNames |-> [k \in StoredKeys |-> UNDEFINED]]
       /\ pend = [i \in Inst |-> PendIdle]
       /\ it = ItIdle
       /\ it2 = ItIdle
       /\ sched = SchedInit
       /\ clock = 0
       /\ pm = PmInit
       /\ mig = MigIdle
       /\ boot = BootInit

NextConn ==
    \/ \E i \in Inst : mode \in {"mysql", "postgres"} /\ BootCheck(i)
    \/ \E i \in Inst : mode \in {"mysql", "postgres"} /\ BootExec(i)
    \/ \E i \in Inst : KeyvMongo_initConnection(i)
    \/ \E i \in Inst : OpIssue(i)
    \/ \E i \in Inst, op \in ShareOps : OpResume(i, op)
    \/ \E i \in Inst, op \in ShareOps : Op(i, op)

SpecConn == InitConn /\ [][NextConn]_vars

\* C34: when the connection or the index/DDL setup fails during bootstrap,
\* an error signal is emitted on the adapter and every operation issued on
\* that instance, before or after the failure, eventually settles with a
\* failure instead of waiting forever (an operation that waits can go on
\* once the bootstrap takes no further step, and it settles as failed).
C34_BootstrapFailureSettles ==
    /\ [](\A i \in Inst :
             boot.inst[i].other =>
                /\ boot.inst[i].emitted
                /\ (BootOver(i) /\ boot.inst[i].waiting > 0) => Connected(i))
    /\ [][\A i \in Inst :
             (boot.inst[i].other /\ last'.op \in DataOps /\ last'.inst = i) =>
                ~last'.ok
         ]_<<last.op, boot>>

---------------------------------------------------------------------------
(* The pool cache under interleaved getPool, endPool and endAllPools.      *)

\* C35: in every reachable state, under any interleaving of getPool,
\* endPool and endAllPools calls, at most one pool that has been created
\* and not yet ended exists per (URI, config) cache key, and every pool
\* that is not ended is still in the cache (no open pool is ever evicted
\* without being closed).  The cache holds one pool per key, so that the
\* first part follows once every open pool is in the cache.
C35_OpenPoolsAreCached ==
    /\ \A p \in 1..pm.created :
          ~PoolEnded(p) => \E e \in pm.pools : e.pool = p
    /\ \A e1, e2 \in pm.pools : e1.key = e2.key => e1.pool = e2.pool

\* C36: under any interleaving of getPool with endPool and endAllPools,
\* getPool never returns a pool on which end() has already been called
\* (pm.got holds what the getPool calls returned since the last step of an
\* endPool or endAllPools call).
C36_GetPoolReturnsOpenPool ==
    \A a \in PoolArgs : pm.got[a] # 0 => ~PoolEnded(pm.got[a])

---------------------------------------------------------------------------
(* disconnect() of a KeyvPostgres instance whose uri, ssl or pool options  *)
(* were changed after construction.                                        *)

\* what the setters can leave in this._uri, this._poolConfig and this._ssl:
\* the constructed values, "uri = 'u2'", "opts = { max: 1, ssl: true }"
InstArgs == {InstPoolArg,
             PoolArg("u2", <<Opt("ssl", UNDEFINED)>>),
             PoolArg("u1", <<Opt("max", "1"), Opt("ssl", "true")>>)}

\* the uri, ssl and opts setters: the fields change, the query function
\* keeps the pool it closed over at construction
setOptions(i, a) ==
    /\ mode = "postgres"
    /\ ~boot.inst[i].closed /\ boot.inst[i].arg # a
    /\ boot' = [boot EXCEPT !.inst[i].arg = a]
    /\ last' = NoCall
    /\ UNCHANGED <<sched, it2, clock, pm, mig, mode, ns, store, nextId, shadow, pend, it>>

NextSet ==
    \/ \E i \in Inst : BootCheck(i)
    \/ \E i \in Inst : BootExec(i)
    \/ \E i \in Inst, a \in InstArgs : setOptions(i, a)
    \/ \E a \in InstArgs : getPool(a.uri, a.options)
    \/ \E i \in Inst : disconnectCall(i)
    \/ \E i \in Inst : disconnectResume(i)

SpecSet == InitShare /\ [][NextSet]_vars

\* C37: disconnect() on a Postgres adapter ends the pool that the instance
\* acquired at construction, also when the uri, ssl or pool options of the
\* instance were changed through their setters or the opts setter after
\* construction; it never ends a pool the instance does not use and never
\* leaves the instance's own pool open.
C37_DisconnectEndsOwnPool ==
    [][\A i \in Inst :
          /\ (pm.calls[InstCaller(i)].pc = "idle" /\ pm'.calls # pm.calls) =>
                \A p \in PoolIds :
                    pm'.ends[p] # pm.ends[p] => p = boot.inst[i].conn
          /\ (~boot.inst[i].closed /\ boot'.inst[i].closed) =>
                pm'.ends[boot.inst[i].conn].one + pm'.ends[boot.inst[i].conn].all > 0
      ]_<<boot, pm>>

---------------------------------------------------------------------------
(* The scheduled event of KeyvMysql: two adapters on one database, each    *)
(* on its own table, constructed with or without intervalExpiration.       *)

\* the values of the intervalExpiration option: undefined, 0, 1
Intervals == {{}, {0}, {1}}
\* this._table of adapter i
TableOf(i) == IF i = "i1" THEN "t1" ELSE "t2"
\* the name every adapter gives its event
EventName == "keyv_delete_expired_keys"

\* this._intervalExpiration !== undefined && this._intervalExpiration > 0
IntervalSet(v) == \E x \in v : x > 0

\* DROP EVENT IF EXISTS name
DropEvent(events, name) == {e \in events : e.name # name}

\* CREATE EVENT IF NOT EXISTS name ... DO DELETE FROM table WHERE expires ...
CreateEvent(events, name, table) ==
    IF \E e \in events : e.name = name THEN events
    ELSE events \cup {[name |-> name, table |-> table]}

\* new KeyvMysql({ table, intervalExpiration })
KeyvMysql_constructor(i, intervalExpiration) ==
    /\ mode = "mysql"
    /\ sched.pc[i] = "none"
    /\ sched' = [sched EXCEPT !.pc[i] = "createTable",
                              !.interval[i] = intervalExpiration]
    /\ UNCHANGED <<env, mode, ns, store, nextId, last, shadow, pend, it, it2>>

\* One step of the promise chain of the constructor: the table statements
\* ("createTable"), then, when the interval is set, SET GLOBAL
\* event_scheduler, DROP EVENT, CREATE EVENT.  Any statement can fail, which
\* rejects the promise.
EventStep(i) ==
    LET at == sched.pc[i]
    IN /\ at \in {"createTable", "setGlobal", "dropEvent", "createEvent"}
       /\ \E failed \in BOOLEAN :
            sched' =
               IF failed THEN [sched EXCEPT !.pc[i] = "failed"]
               ELSE CASE at = "createTable" ->
                           [sched EXCEPT !.pc[i] =
                               IF IntervalSet(sched.interval[i]) THEN "setGlobal"
                               ELSE "ready"]
                      [] at = "setGlobal" -> [sched EXCEPT !.pc[i] = "dropEvent"]
                      [] at = "dropEvent" ->
                           [sched EXCEPT !.pc[i] = "createEvent",
                                         !.events = DropEvent(@, EventName)]
                      [] OTHER ->
                           [sched EXCEPT !.pc[i] = "ready",
                                         !.events = CreateEvent(@, EventName, TableOf(i))]
       /\ UNCHANGED <<env, mode, ns, store, nextId, last, shadow, pend, it, it2>>

InitEvent == Init /\ mode = "mysql"

NextEvent ==
    \/ \E i \in Inst, v \in Intervals : KeyvMysql_constructor(i, v)
    \/ \E i \in Inst : EventStep(i)

SpecEvent == InitEvent /\ [][NextEvent]_vars

\* C38: a backend-native scheduled deletion job is installed during MySQL
\* bootstrap exactly when intervalExpiration is set and greater than 0, and
\* after several MySQL adapters with intervalExpiration > 0 on different
\* tables have bootstrapped (in any order), a scheduled job deleting
\* expired rows exists for each of those tables.
C38_EventPerTable ==
    /\ [](\A i \in Inst :
             (/\ sched.pc[i] = "ready" /\ IntervalSet(sched.interval[i])
              /\ \A j \in Inst : sched.pc[j] \in {"none", "ready"}) =>
                \E e \in sched.events : e.table = TableOf(i))
    /\ [][\A i \in Inst :
             sched'.pc[i] # sched.pc[i] =>
                /\ ~IntervalSet(sched'.interval[i]) => sched'.events = sched.events
                /\ (sched'.pc[i] = "ready" /\ IntervalSet(sched.interval[i])) =>
                      \E e \in sched'.events : e.name = EventName
         ]_sched

---------------------------------------------------------------------------
(* The iterator next to the point lookups of the same adapter.             *)

\* has(key) on adapter i resolves to true
HasTrue(i, key) == \A o \in HasOut(i, key) : o.ok /\ o.res = TRUE

\* C39: for an adapter whose namespace is n (a string, the empty string or
\* unset) and with no write during the iteration, iterator(n) yields exactly
\* the keys for which has(key) on that adapter is true: every yielded key is
\* found by has, and every stored key that has finds (under the name the
\* iterator gives it) is yielded, whichever instance wrote the entry.
C39_IteratorAgreesWithHas ==
    (it.pc = "done" /\ it.arg = ns[it.inst]) =>
        /\ \A y \in YieldedKeys : HasTrue(it.inst, y)
        /\ \A r \in store :
              HasTrue(it.inst, PrefixedKey(it.arg, r.key)) =>
                 PrefixedKey(it.arg, r.key) \in YieldedKeys

---------------------------------------------------------------------------
(* escapeIdentifier of the MySQL and the Postgres adapter (specification   *)
(* SpecEscape). Strings are sequences of characters.                       *)

MaxIdLen == 3    \* longest identifier passed to escapeIdentifier
Backtick == "<backtick>"    \* the character U+0060
DoubleQuote == "\""
Dot == "."
IdChars == {"a", Dot, Backtick, DoubleQuote}
Identifiers == UNION {[1..n -> IdChars] : n \in 0..MaxIdLen}

\* String.prototype.split(sep) with a one-character separator: the pieces
\* between the separators, empty pieces included
RECURSIVE StrSplit(_, _)
StrSplit(s, sep) ==
    IF \A n \in 1..Len(s) : s[n] # sep THEN <<s>>
    ELSE LET p == CHOOSE n \in 1..Len(s) :
                     s[n] = sep /\ \A m \in 1..(n - 1) : s[m] # sep
         IN <<SubSeq(s, 1, p - 1)>> \o StrSplit(SubSeq(s, p + 1, Len(s)), sep)

\* segment.replace(/q/g, "qq"): every occurrence of q replaced by two
RECURSIVE ReplaceQuotes(_, _)
ReplaceQuotes(s, q) ==
    IF s = <<>> THEN <<>>
    ELSE (IF Head(s) = q THEN <<q, q>> ELSE <<Head(s)>>) \o ReplaceQuotes(Tail(s), q)

\* Array.prototype.join(sep)
RECURSIVE StrJoin(_, _)
StrJoin(parts, sep) ==
    IF parts = <<>> THEN <<>>
    ELSE IF Len(parts) = 1 THEN parts[1]
    ELSE parts[1] \o <<sep>> \o StrJoin(Tail(parts), sep)

\* the template literal q${segment.replace(/q/g, "qq")}q
QuoteSegment(segment, q) == <<q>> \o ReplaceQuotes(segment, q) \o <<q>>

\* escapeIdentifier of src/storage/mysql/src/index.ts
MysqlEscapeIdentifier(identifier) ==
    LET segments == StrSplit(identifier, Dot)
    IN StrJoin([n \in 1..Len(segments) |-> QuoteSegment(segments[n], Backtick)], Dot)

\* escapeIdentifier of src/storage/postgres/src/types.ts
PgEscapeIdentifier(identifier) == QuoteSegment(identifier, DoubleQuote)

\* the quote character of the backend
QuoteChar == IF mode = "mysql" THEN Backtick ELSE DoubleQuote

\* one call of the escaper of the adapter's module
escapeIdentifier(i, identifier) ==
    /\ Ready
    /\ mode \in {"mysql", "postgres"}
    /\ last' = Call("escapeIdentifier", i, identifier,
                    Outcome(store, IF mode = "mysql"
                                   THEN MysqlEscapeIdentifier(identifier)
                                   ELSE PgEscapeIdentifier(identifier)))
    /\ UNCHANGED <<sched, it2, env, mode, ns, store, nextId, shadow, pend, it>>

InitEscape == Init /\ mode \in {"mysql", "postgres"}

NextEscape ==
    \/ \E i \in Inst, identifier \in Identifiers : escapeIdentifier(i, identifier)
    \/ Resume

SpecEscape == InitEscape /\ [][NextEscape]_vars

NotQuoted == [ok |-> FALSE, segs |-> <<>>]

\* reads a quoted identifier of s from position p, just after its opening
\* quote, the way the SQL lexer does: two quotes in a row are one quote
\* character of the name, a single quote ends the name
RECURSIVE ReadSegment(_, _, _, _)
ReadSegment(s, q, p, acc) ==
    IF p > Len(s) THEN [ok |-> FALSE, seg |-> acc, next |-> p]
    ELSE IF s[p] # q THEN ReadSegment(s, q, p + 1, Append(acc, s[p]))
    ELSE IF p < Len(s) /\ s[p + 1] = q THEN ReadSegment(s, q, p + 2, Append(acc, q))
    ELSE [ok |-> TRUE, seg |-> acc, next |-> p + 1]

\* reads s from position p as quoted identifiers separated by '.'
RECURSIVE ReadQualified(_, _, _)
ReadQualified(s, q, p) ==
    IF p > Len(s) \/ s[p] # q THEN NotQuoted
    ELSE LET r == ReadSegment(s, q, p + 1, <<>>)
         IN IF ~r.ok THEN NotQuoted
            ELSE IF r.next > Len(s) THEN [ok |-> TRUE, segs |-> <<r.seg>>]
            ELSE IF s[r.next] # Dot THEN NotQuoted
            ELSE LET rest == ReadQualified(s, q, r.next + 1)
                 IN IF rest.ok THEN [ok |-> TRUE, segs |-> <<r.seg>> \o rest.segs]
                    ELSE NotQuoted

\* C40: for every identifier the escaper splits it on '.', wraps each
\* segment in the backend's quote character with every quote character
\* inside doubled, and rejoins with '.': read back as quoted names separated
\* by '.', the result is well formed (no quote character of the identifier
\* ends a quoting), its names contain no '.', and joined with '.' they are
\* the identifier.
C40_EscapeIdentifier ==
    last.op = "escapeIdentifier" =>
        LET read == ReadQualified(last.res, QuoteChar, 1)
        IN /\ read.ok
           /\ \A n \in 1..Len(read.segs) :
                 \A m \in 1..Len(read.segs[n]) : read.segs[n][m] # Dot
           /\ StrJoin(read.segs, Dot) = last.keys

====
